---- MODULE Spec2Model ----
(***************************************************************************)
(* Model of tennis-booking-finder: the Eversports per-date adapter         *)
(* (sources/eversports.py), the paginating LTM adapter (sources/ltm.py)    *)
(* and the aggregator collect_slots (sources/__init__.py).                 *)
(*                                                                         *)
(* Text is a sequence of one-character strings, so that len(), slicing,    *)
(* strip(), lower() and substring tests are computed as Python computes    *)
(* them.  Instants are wall-clock seconds in the one configured timezone   *)
(* (all datetimes of a run share one tzinfo, so Python compares and adds   *)
(* them by wall clock).  A date is a day number; day d starts at second    *)
(* d * 86400.                                                              *)
(***************************************************************************)
EXTENDS Integers, Sequences, FiniteSets, TLC

VARIABLES
    \* ---- eversports.fetch_slots ----
    evPc,           \* "idle" | "facility" | "attempt" | "request" | "done"
    target_dates,   \* list of day numbers (de-duplicated, order kept)
    evF, evD, evS,  \* loop positions: facility, date, sport (1-based)
    retry_count, success, broke,
    slots,          \* list[Slot] built by the adapter
    seen,           \* set of (calendar_id, court_id, start)
    errors,         \* len(errors)
    initialized_facilities,
    attemptLog,     \* outcomes of the calendar requests of the current combination
    calTotal,       \* calendar requests made so far in this call
    last,           \* what the latest loop iteration saw and did
    offered,        \* slots yielded by the parser on attempts that ran to completion
    gaveUp,         \* <<combination, attempts made>> of those left without success
    visited,        \* combinations for which a calendar request was made
    disturbed,      \* number of combinations in which the server deviated so far
    deviating,      \* the server has deviated in the current combination
    \* ---- eversports._parse_calendar_html on one court row ----
    rowPc, rowIn, rowOut,
    \* ---- ltm.fetch_slots ----
    ltmPc,          \* "idle" | "loop" | "done" | "raised"
    ltmSite,        \* the name of the site that answers the requests
    ltmPages,       \* the pages argument
    ltmSeed,        \* index of the current seed in SEED_URLS
    page_index,
    ltmUrl,         \* url: the next URL to request
    ltmStop,        \* the page loop of the current seed was left by break
    seen_urls,
    price_lookup,   \* dict code -> value, as a list of <<key, value>> in insertion order
    color_price_by_seed, \* per seed index, dict color -> value
    ltmOut,         \* the slots yielded so far
    ltmFetched,     \* <<seed index, requested URL, resolved URL or "raise">> per fetch_html call
    \* ---- collect_slots ----
    colPc,          \* "idle" | "ltm" | "eversports" | "returned" | "raised"
    colDates,       \* the dates argument: [given, list of day numbers]
    colServer,      \* how the Eversports server answers during this call
    colNow,         \* now, read after the adapters
    colOut,         \* the returned list
    \* ---- one call of a function of app.py, cli.py or ltm.py on a drawn input ----
    fnPc,           \* "idle" | "input" | "returned"
    fnIn, fnOut

evVars == <<evPc, target_dates, evF, evD, evS, retry_count, success, broke, slots,
            seen, errors, initialized_facilities, attemptLog, calTotal, last,
            offered, gaveUp, visited, disturbed, deviating>>
rowVars == <<rowPc, rowIn, rowOut>>
ltmVars == <<ltmPc, ltmSite, ltmPages, ltmSeed, page_index, ltmUrl, ltmStop, seen_urls,
             price_lookup, color_price_by_seed, ltmOut, ltmFetched>>
colVars == <<colPc, colDates, colServer, colNow, colOut>>
fnVars == <<fnPc, fnIn, fnOut>>
vars == <<evVars, rowVars, ltmVars, colVars, fnVars>>

(***************************************************************************)
(* Text helpers (Python str semantics on sequences of characters).         *)
(***************************************************************************)
\* None: an absent attribute / a missing value.
None == <<"<None>">>

DigitVal ==
    [c \in {"0", "1", "2", "3", "4", "5", "6", "7", "8", "9"} |->
        CASE c = "0" -> 0 [] c = "1" -> 1 [] c = "2" -> 2 [] c = "3" -> 3
          [] c = "4" -> 4 [] c = "5" -> 5 [] c = "6" -> 6 [] c = "7" -> 7
          [] c = "8" -> 8 [] c = "9" -> 9]

IsDigit(c) == c \in DOMAIN DigitVal

\* bool(x) of an optional string.
Truthy(x) == x # None /\ x # <<>>

\* Python's "a or b".
PyOr(a, b) == IF Truthy(a) THEN a ELSE b

\* str.lower() on the letters the model's texts use.
LowerChar(c) ==
    CASE c = "F" -> "f" [] c = "O" -> "o" [] c = "B" -> "b" [] c = "A" -> "a"
      [] OTHER -> c

Lower(s) == [i \in 1..Len(s) |-> LowerChar(s[i])]

\* str.strip(): leading and trailing blanks removed.
RECURSIVE LStrip(_)
LStrip(s) == IF s # <<>> /\ Head(s) = " " THEN LStrip(Tail(s)) ELSE s

RECURSIVE RStrip(_)
RStrip(s) ==
    IF s # <<>> /\ s[Len(s)] = " " THEN RStrip(SubSeq(s, 1, Len(s) - 1)) ELSE s

Strip(s) == RStrip(LStrip(s))

\* "tok in text" (substring test).
Contains(text, tok) ==
    \E i \in 1..(Len(text) - Len(tok) + 1) : SubSeq(text, i, i + Len(tok) - 1) = tok

StartsWith(text, tok) ==
    Len(text) >= Len(tok) /\ SubSeq(text, 1, Len(tok)) = tok

(***************************************************************************)
(* Eversports constants.                                                   *)
(***************************************************************************)
tFree == <<"f", "r", "e", "e">>
tOpen == <<"o", "p", "e", "n">>
tFrei == <<"f", "r", "e", "i">>
tOccupied == <<"o", "c", "c", "u", "p", "i", "e", "d">>

AVAILABLE_STATES == {tFree, tOpen}

BUSY_TOKENS ==
    { tOccupied,
      <<"b", "o", "o", "k", "e", "d">>,
      <<"b", "l", "o", "c", "k", "e", "d">>,
      <<"r", "e", "s", "e", "r", "v", "e", "d">>,
      <<"b", "e", "s", "e", "t", "z", "t">>,
      <<"b", "e", "l", "e", "g", "t">>,
      <<"g", "e", "s", "c", "h", "l", "o", "s", "s", "e", "n">>,
      <<"a", "b", "o">> }

POSITIVE_TOKENS == {tFree, tFrei, tOpen}

OPEN_MARKERS == {<<"d", "a", "t", "a", "-", "o", "p", "e", "n">>, <<"t", "r", "u", "e">>}

\* FACILITIES: the id and the sport variants (by name) of each facility, in order.
FACILITIES ==
    << [id |-> <<"1", "2", "8", "8", "6">>, sports |-> <<"Tennis">>],
       [id |-> <<"1", "2", "7", "8", "2">>, sports |-> <<"Tennis">>],
       [id |-> <<"8", "0", "2", "1", "4">>, sports |-> <<"Tennis outdoor", "Tennis indoor">>] >>

max_retries == 2

DaySeconds == 24 * 60 * 60

(***************************************************************************)
(* _time_str_to_minutes: None unless raw is truthy and len(raw) = 4; then  *)
(* int(raw[:2]) * 60 + int(raw[2:]), None when either int() fails.  The    *)
(* result is a record: tag "int" with the minutes, or tag "none".          *)
(***************************************************************************)
IntResult(n) == [tag |-> "int", v |-> n]
NoneResult == [tag |-> "none", v |-> 0]
RaiseResult == [tag |-> "raise", v |-> 0]

_time_str_to_minutes(raw) ==
    IF ~Truthy(raw) \/ Len(raw) # 4 THEN NoneResult
    ELSE IF \A i \in 1..4 : IsDigit(raw[i])
         THEN IntResult((10 * DigitVal[raw[1]] + DigitVal[raw[2]]) * 60
                        + 10 * DigitVal[raw[3]] + DigitVal[raw[4]])
         ELSE NoneResult

(***************************************************************************)
(* datetime.strptime(raw, "%H%M").time(): the format compiles to the       *)
(* regular expression (2[0-3]|[0-1]\d|\d)([0-5]\d|\d), matched from the    *)
(* start with backtracking; the match must consume the whole string.       *)
(* Result: tag "int" with the minute of the day, or tag "raise".           *)
(***************************************************************************)
H2ok(s) ==
    /\ Len(s) >= 2 /\ IsDigit(s[1]) /\ IsDigit(s[2])
    /\ \/ s[1] = "2" /\ DigitVal[s[2]] <= 3
       \/ s[1] \in {"0", "1"}

M2ok(s, p) == Len(s) >= p + 1 /\ IsDigit(s[p]) /\ IsDigit(s[p + 1]) /\ DigitVal[s[p]] <= 5

M1ok(s, p) == Len(s) >= p /\ IsDigit(s[p])

\* the match as <<hours, minutes, end position>>, or <<>> when nothing matches
HMMatch(s) ==
    IF H2ok(s) /\ M2ok(s, 3)
    THEN <<10 * DigitVal[s[1]] + DigitVal[s[2]], 10 * DigitVal[s[3]] + DigitVal[s[4]], 4>>
    ELSE IF H2ok(s) /\ M1ok(s, 3)
    THEN <<10 * DigitVal[s[1]] + DigitVal[s[2]], DigitVal[s[3]], 3>>
    ELSE IF Len(s) >= 1 /\ IsDigit(s[1]) /\ M2ok(s, 2)
    THEN <<DigitVal[s[1]], 10 * DigitVal[s[2]] + DigitVal[s[3]], 3>>
    ELSE IF Len(s) >= 1 /\ IsDigit(s[1]) /\ M1ok(s, 2)
    THEN <<DigitVal[s[1]], DigitVal[s[2]], 2>>
    ELSE <<>>

strptime_HM(raw) ==
    LET m == HMMatch(raw)
    IN  IF m = <<>> \/ m[3] # Len(raw) THEN RaiseResult
        ELSE IntResult(m[1] * 60 + m[2])

(***************************************************************************)
(* JSON values of the blocked-slot feed: t is the JSON type, s the text of *)
(* a string, n the value of a number, the length of a list/object, or -    *)
(* for t = "isodate" - the day whose date.isoformat() text the string is.  *)
(***************************************************************************)
JMissing == [t |-> "missing", s |-> <<>>, n |-> 0]
JNull == [t |-> "null", s |-> <<>>, n |-> 0]
JStr(chars) == [t |-> "str", s |-> chars, n |-> 0]
JInt(k) == [t |-> "int", s |-> <<>>, n |-> k]
JList(len) == [t |-> "list", s |-> <<>>, n |-> len]
JIsoDate(day) == [t |-> "isodate", s |-> <<>>, n |-> day]

\* bool(v) for a JSON value
JTruthy(v) ==
    CASE v.t \in {"missing", "null"} -> FALSE
      [] v.t = "str" -> v.s # <<>>
      [] v.t = "isodate" -> TRUE
      [] OTHER -> v.n # 0

\* str(v) for the values a court field takes in the model
IntToStr(k) == <<CHOOSE c \in DOMAIN DigitVal : DigitVal[c] = k>>

JToStr(v) ==
    CASE v.t = "str" -> v.s
      [] v.t = "int" -> IntToStr(v.n)
      [] OTHER -> <<"[", "]">>

\* _time_str_to_minutes on a JSON value: len() of a number raises TypeError,
\* int() of a slice of a list raises TypeError (only ValueError is caught).
time_str_to_minutes_json(v) ==
    IF ~JTruthy(v) THEN NoneResult
    ELSE IF v.t = "int" THEN RaiseResult
    ELSE IF v.t = "list" THEN (IF v.n # 4 THEN NoneResult ELSE RaiseResult)
    ELSE IF v.t = "isodate" THEN NoneResult
    ELSE _time_str_to_minutes(v.s)

(***************************************************************************)
(* _is_blocked: probes start, start + 30, ... while below end.             *)
(* blocked holds <<date value, start minute, court text>> triples.         *)
(***************************************************************************)
_is_blocked(blocked, day_date, court_key, start_raw, end_raw) ==
    LET start_minutes == _time_str_to_minutes(start_raw)
        end_minutes == _time_str_to_minutes(end_raw)
    IN  IF start_minutes.tag = "none" \/ end_minutes.tag = "none" THEN FALSE
        ELSE \E k \in 0..(end_minutes.v \div 30) :
                /\ start_minutes.v + 30 * k < end_minutes.v
                /\ <<JIsoDate(day_date), start_minutes.v + 30 * k, court_key>> \in blocked

(***************************************************************************)
(* A slot cell (td[data-state]): start, end, state, the three tooltip      *)
(* attributes, the open marker are texts or None; price is the parsed      *)
(* data-price (kind "absent" | "bad" | "num", cents); rate is data-rate.   *)
(***************************************************************************)
TooltipOf(cell) ==
    Lower(Strip(PyOr(cell.dot, PyOr(cell.title, PyOr(cell.aria, <<>>)))))

StateOf(cell) == Lower(Strip(PyOr(cell.state, <<>>)))

HasAny(text, tokens) == \E tok \in tokens : Contains(text, tok)

\* float(price_raw.replace(",", ".")) when data-price is truthy, else None
PriceValue(price) == IF price.kind = "num" THEN price.cents ELSE -1

(***************************************************************************)
(* eversports._build_slot: the Slot of a cell, or None.                    *)
(***************************************************************************)
NoSlot == [none |-> TRUE]

\* mutant of DurationMinutes: the minutes between the two times of day
DurationMinutesWithinDay(start_dt, end_dt) == ((end_dt - start_dt) % DaySeconds) \div 60

\* line 457: int((end_dt - start_dt).total_seconds() // 60)
DurationMinutes(start_dt, end_dt) == (end_dt - start_dt) \div 60

\* mutant of EndAfterStart: an end equal to the start stays on the day
EndAfterStartStrict(start_dt, end_0) ==
    IF end_0 < start_dt THEN end_0 + DaySeconds ELSE end_0

\* lines 452-455: "if end_dt <= start_dt: end_dt += timedelta(days=1)"
EndAfterStart(start_dt, end_0) ==
    IF end_0 <= start_dt THEN end_0 + DaySeconds ELSE end_0

\* mutant of StateAvailable: an empty state passes as well
StateAvailableOrEmpty(state) == state = <<>> \/ state \in AVAILABLE_STATES

\* lines 420-422: "if state not in AVAILABLE_STATES: return None"
StateAvailable(state) == state \in AVAILABLE_STATES

build_slot_ev(cell, day_date, court_label, court_id, calendar_label, facility) ==
    LET state == StateOf(cell)
        tooltip_text == TooltipOf(cell)
        start_time == strptime_HM(cell.start)
        end_time == strptime_HM(cell.end)
        start_dt == day_date * DaySeconds + start_time.v * 60
        end_0 == day_date * DaySeconds + end_time.v * 60
        end_dt == EndAfterStart(start_dt, end_0)
        price_value == PriceValue(cell.price)
    IN  IF ~StateAvailable(state) THEN NoSlot
        ELSE IF StartsWith(tooltip_text, tOccupied) THEN NoSlot
        ELSE IF tooltip_text # <<>> /\ ~HasAny(tooltip_text, POSITIVE_TOKENS) THEN NoSlot
        ELSE IF ~Truthy(cell.start) \/ ~Truthy(cell.end) THEN NoSlot
        ELSE IF start_time.tag = "raise" \/ end_time.tag = "raise" THEN NoSlot
        ELSE IF cell.open \notin OPEN_MARKERS THEN NoSlot
        ELSE IF (price_value <= 0) /\ tooltip_text # <<>>
                /\ ~HasAny(tooltip_text, POSITIVE_TOKENS) THEN NoSlot
        ELSE [ none |-> FALSE,
               calendar_id |-> facility.id,
               calendar_label |-> calendar_label,
               court_id |-> court_id,
               court_label |-> court_label,
               start |-> start_dt,
               end |-> end_dt,
               duration_minutes |-> DurationMinutes(start_dt, end_dt),
               price_eur |-> price_value,
               price_code |-> cell.rate,
               provider |-> "eversports",
               sport |-> "tennis" ]

(***************************************************************************)
(* _parse_calendar_html on one court row: the scan that keeps the first    *)
(* candidate per (court, start, end) key and retracts a key found busy,    *)
(* then the blocked-slot veto and _build_slot for each kept candidate.     *)
(* A row is [court_id, court_uuid, court_label, area, cells].              *)
(***************************************************************************)
CourtKey(row) == PyOr(row.court_id, PyOr(row.court_uuid, row.court_label))

CellKey(row, cell) == <<CourtKey(row), PyOr(cell.start, <<>>), PyOr(cell.end, <<>>)>>

\* mutant of IsBusyCell: the tooltip is not looked at
IsBusyCellByStateOnly(cell) ==
    LET state == StateOf(cell)
    IN  state # <<>> /\ state \notin AVAILABLE_STATES

IsBusyCell(cell) ==
    LET state == StateOf(cell)
    IN  \/ state # <<>> /\ state \notin AVAILABLE_STATES
        \/ HasAny(TooltipOf(cell), BUSY_TOKENS)

\* mutant of ScanStep: a busy cell retracts nothing, the key is only remembered
ScanStepKeepsCandidates(st, row, cell) ==
    LET key == CellKey(row, cell)
    IN  IF IsBusyCell(cell) THEN [cand |-> st.cand, busy |-> st.busy \cup {key}]
        ELSE IF key \in st.busy \/ \E i \in 1..Len(st.cand) : st.cand[i][1] = key
        THEN st
        ELSE [cand |-> Append(st.cand, <<key, cell>>), busy |-> st.busy]

\* scan state: [cand |-> list of <<key, cell>> in insertion order, busy |-> set of keys]
ScanStep(st, row, cell) ==
    LET key == CellKey(row, cell)
    IN  IF IsBusyCell(cell)
        THEN [cand |-> SelectSeq(st.cand, LAMBDA e : e[1] # key), busy |-> st.busy \cup {key}]
        ELSE IF key \in st.busy \/ \E i \in 1..Len(st.cand) : st.cand[i][1] = key
        THEN st
        ELSE [cand |-> Append(st.cand, <<key, cell>>), busy |-> st.busy]

RECURSIVE ScanCells(_, _, _)
ScanCells(st, row, cells) ==
    IF cells = <<>> THEN st
    ELSE ScanCells(ScanStep(st, row, Head(cells)), row, Tail(cells))

Candidates(row) == ScanCells([cand |-> <<>>, busy |-> {}], row, row.cells).cand

\* calendar_label = row["data-area"] or sport.name (a plain string, "" when absent)
CalendarLabel(row, sport) == IF row.area # "" THEN row.area ELSE sport

RECURSIVE EmitCandidates(_, _, _, _, _, _)
EmitCandidates(cands, row, day_date, blocked_slots, facility, sport) ==
    IF cands = <<>> THEN <<>>
    ELSE LET key == Head(cands)[1]
             cell == Head(cands)[2]
             rest == EmitCandidates(Tail(cands), row, day_date, blocked_slots,
                                    facility, sport)
             slot == build_slot_ev(cell, day_date, row.court_label,
                                   PyOr(row.court_id, row.court_uuid),
                                   CalendarLabel(row, sport), facility)
         IN  IF _is_blocked(blocked_slots, day_date, CourtKey(row), key[2], key[3])
             THEN rest
             ELSE IF slot.none THEN rest
             ELSE <<slot>> \o rest

parse_row(row, day_date, blocked_slots, facility, sport) ==
    EmitCandidates(Candidates(row), row, day_date, blocked_slots, facility, sport)

\* _parse_calendar_html: a page is a list of day blocks [day, rows]
RECURSIVE parse_rows(_, _, _, _, _)
parse_rows(rows, day_date, blocked_slots, facility, sport) ==
    IF rows = <<>> THEN <<>>
    ELSE parse_row(Head(rows), day_date, blocked_slots, facility, sport)
         \o parse_rows(Tail(rows), day_date, blocked_slots, facility, sport)

\* day -1 stands for a data-date that is absent or does not parse
RECURSIVE _parse_calendar_html(_, _, _, _, _)
_parse_calendar_html(page, fallback_date, blocked_slots, facility, sport) ==
    IF page = <<>> THEN <<>>
    ELSE LET day_block == Head(page)
             day_date == IF day_block.day = -1 THEN fallback_date ELSE day_block.day
         IN  parse_rows(day_block.rows, day_date, blocked_slots, facility, sport)
             \o _parse_calendar_html(Tail(page), fallback_date, blocked_slots,
                                     facility, sport)

(***************************************************************************)
(* _extract_court_ids and _fetch_blocked_slots.                            *)
(* A feed response is [kind, top, slots_kind, entries]:                    *)
(*   kind       "neterr" (the request or raise_for_status raises),         *)
(*              "notjson" (response.json() raises) or "json";              *)
(*   top        the JSON type of the payload;                              *)
(*   slots_kind the JSON type of payload["slots"] ("missing" when absent); *)
(*   entries    the elements of payload["slots"], each [isdict, start,     *)
(*              court, date] with JSON values for the three fields.        *)
(***************************************************************************)
RECURSIVE RowsOf(_)
RowsOf(page) == IF page = <<>> THEN <<>> ELSE Head(page).rows \o RowsOf(Tail(page))

_extract_court_ids(page) ==
    LET rows == RowsOf(page)
    IN  { PyOr(rows[i].court_id, rows[i].court_uuid) :
            i \in { j \in 1..Len(rows) : Truthy(PyOr(rows[j].court_id, rows[j].court_uuid)) } }

\* one entry of the loop over slot_entries: "skip", "add" (with the triple) or "raise"
EntryStep(entry) ==
    LET start_minutes == time_str_to_minutes_json(entry.start)
    IN  IF ~entry.isdict THEN [tag |-> "skip", item |-> <<>>]
        ELSE IF start_minutes.tag = "raise" THEN [tag |-> "raise", item |-> <<>>]
        ELSE IF start_minutes.tag = "none" \/ entry.court.t \in {"missing", "null"}
                \/ ~JTruthy(entry.date)
        THEN [tag |-> "skip", item |-> <<>>]
        ELSE IF entry.date.t = "list" THEN [tag |-> "raise", item |-> <<>>]
        ELSE [tag |-> "add", item |-> <<entry.date, start_minutes.v, JToStr(entry.court)>>]

RECURSIVE BlockedOfEntries(_, _)
BlockedOfEntries(entries, acc) ==
    IF entries = <<>> THEN [tag |-> "ok", set |-> acc]
    ELSE LET r == EntryStep(Head(entries))
         IN  IF r.tag = "raise" THEN [tag |-> "raise", set |-> {}]
             ELSE BlockedOfEntries(Tail(entries),
                                   IF r.tag = "add" THEN acc \cup {r.item} ELSE acc)

_fetch_blocked_slots(court_ids, feed) ==
    IF court_ids = {} THEN [tag |-> "ok", set |-> {}]
    ELSE IF feed.kind # "json" THEN [tag |-> "ok", set |-> {}]
    ELSE IF feed.top # "dict" \/ feed.slots_kind # "list" THEN [tag |-> "ok", set |-> {}]
    ELSE BlockedOfEntries(feed.entries, {})

(***************************************************************************)
(* Inputs of the Eversports adapter: texts, cells, pages, feeds.           *)
(***************************************************************************)
t0000 == <<"0", "0", "0", "0">>
t1000 == <<"1", "0", "0", "0">>
t1015 == <<"1", "0", "1", "5">>
t1030 == <<"1", "0", "3", "0">>
t1100 == <<"1", "1", "0", "0">>
t1115 == <<"1", "1", "1", "5">>
t1200 == <<"1", "2", "0", "0">>
t2300 == <<"2", "3", "0", "0">>
t930 == <<"9", "3", "0">>
tTrue == <<"t", "r", "u", "e">>
tBooked == <<"b", "o", "o", "k", "e", "d">>
court1 == <<"1">>
court2 == <<"2">>

Cell(start, end, state, tooltip, open) ==
    [ start |-> start, end |-> end, state |-> state,
      dot |-> None, title |-> tooltip, aria |-> None, open |-> open,
      price |-> [kind |-> "absent", cents |-> 0], rate |-> None ]

FreeCell(start, end) == Cell(start, end, tFree, None, tTrue)

Row(court_id, cells) ==
    [ court_id |-> court_id, court_uuid |-> <<>>, court_label |-> <<"C">> \o court_id,
      area |-> "", cells |-> cells ]

\* two free hours on court 1, the date taken from the request
PageA == << [day |-> -1, rows |-> <<Row(court1, <<FreeCell(t1000, t1100), FreeCell(t1100, t1200)>>)>>] >>
\* the same cell of court 1 in two rows, and a booked hour: day 1 whatever the request
PageB ==
    << [day |-> 1,
        rows |-> << Row(court1, <<FreeCell(t1000, t1100)>>),
                    Row(court1, <<FreeCell(t1000, t1100)>>),
                    Row(court2, <<Cell(t1000, t1100, tBooked, None, None)>>) >>] >>
\* no court row at all
PageEmpty == <<>>
\* an hour that ends at midnight and a cell whose end equals its start
PageNight ==
    << [day |-> -1, rows |-> <<Row(court1, <<FreeCell(t2300, t0000), FreeCell(t1000, t1000)>>)>>] >>

\* the pages and feeds the model's server may answer with, by name
EvPages == {"PageA", "PageB", "PageEmpty", "PageNight"}

PageNamed(name) ==
    CASE name = "PageA" -> PageA [] name = "PageB" -> PageB
      [] name = "PageNight" -> PageNight [] OTHER -> PageEmpty

Entry(start, court, date) == [isdict |-> TRUE, start |-> start, court |-> court, date |-> date]
NonDictEntry == [isdict |-> FALSE, start |-> JMissing, court |-> JMissing, date |-> JMissing]

Feed(kind, top, slots_kind, entries) ==
    [kind |-> kind, top |-> top, slots_kind |-> slots_kind, entries |-> entries]

GoodEntry(day) == Entry(JStr(t1000), JStr(court1), JIsoDate(day))

FeedNetErr == Feed("neterr", "none", "missing", <<>>)
FeedNotJson == Feed("notjson", "none", "missing", <<>>)
FeedTopList == Feed("json", "list", "missing", <<>>)
FeedSlotsNotList == Feed("json", "dict", "dict", <<>>)
FeedNoSlots == Feed("json", "dict", "missing", <<>>)
FeedNonDictEntry == Feed("json", "dict", "list", <<NonDictEntry>>)
FeedMissingStart == Feed("json", "dict", "list", <<Entry(JMissing, JStr(court1), JIsoDate(1))>>)
FeedMissingCourt == Feed("json", "dict", "list", <<Entry(JStr(t1000), JNull, JIsoDate(1))>>)
FeedMissingDate == Feed("json", "dict", "list", <<Entry(JStr(t1000), JStr(court1), JMissing)>>)
FeedIntStart == Feed("json", "dict", "list", <<Entry(JInt(1000), JStr(court1), JIsoDate(1))>>)
FeedListDate == Feed("json", "dict", "list", <<Entry(JStr(t1000), JStr(court1), JList(3))>>)
FeedIntCourt == Feed("json", "dict", "list", <<Entry(JStr(t1000), JInt(1), JIsoDate(1)), Entry(JStr(t1000), JInt(1), JIsoDate(2))>>)
FeedBlocks == Feed("json", "dict", "list", <<GoodEntry(1), GoodEntry(2)>>)
FeedEmpty == Feed("json", "dict", "list", <<>>)

\* feeds that fail or are malformed: request failure, not JSON, not an object,
\* "slots" not a list, an entry that is no object, a field missing or mistyped
MalformedFeeds ==
    { "FeedNetErr", "FeedNotJson", "FeedTopList", "FeedSlotsNotList", "FeedNonDictEntry",
      "FeedMissingStart", "FeedMissingCourt", "FeedMissingDate", "FeedIntStart",
      "FeedListDate" }

EvFeeds == MalformedFeeds \cup {"FeedNoSlots", "FeedIntCourt", "FeedBlocks", "FeedEmpty"}

FeedNamed(name) ==
    CASE name = "FeedNetErr" -> FeedNetErr
      [] name = "FeedNotJson" -> FeedNotJson
      [] name = "FeedTopList" -> FeedTopList
      [] name = "FeedSlotsNotList" -> FeedSlotsNotList
      [] name = "FeedNonDictEntry" -> FeedNonDictEntry
      [] name = "FeedMissingStart" -> FeedMissingStart
      [] name = "FeedMissingCourt" -> FeedMissingCourt
      [] name = "FeedMissingDate" -> FeedMissingDate
      [] name = "FeedIntStart" -> FeedIntStart
      [] name = "FeedListDate" -> FeedListDate
      [] name = "FeedNoSlots" -> FeedNoSlots
      [] name = "FeedIntCourt" -> FeedIntCourt
      [] name = "FeedBlocks" -> FeedBlocks
      [] OTHER -> FeedEmpty

(***************************************************************************)
(* eversports.fetch_slots as a state machine: one action per facility      *)
(* warm-up, one per iteration of the retry loop, one for leaving the loop. *)
(***************************************************************************)
\* The server answers a calendar request plainly (PageA for the requested date, an
\* empty blocked-slot feed, no failure) except in at most MaxDisturbed combinations
\* of one call, where every request may fail and any page and feed may be sent.
MaxDisturbed == 1

\* the dates argument after list(dict.fromkeys(dates or [today]))
DateInputs == {<<1>>, <<1, 2>>}

HttpErrorStatuses == {403, 500}

SlotKey(slot) == <<slot.calendar_id, slot.court_id, slot.start>>

KeysOf(list) == {SlotKey(list[i]) : i \in 1..Len(list)}

\* bool(response) is response.ok: False for every status raise_for_status raises on
ResponseTruthy(status) == status < 400

\* the test of line 255: e.response and e.response.status_code == 403
Handled403(status) == ResponseTruthy(status) /\ status = 403

\* mutant of AppendNew: the seen check is dropped, every yielded slot is appended
AppendNewNoSeenCheck(acc, seenKeys, yielded) ==
    [slots |-> acc \o yielded, seen |-> seenKeys \cup KeysOf(yielded)]

\* "if key in seen: continue; seen.add(key); slots.append(slot)" over the yielded slots
RECURSIVE AppendNew(_, _, _)
AppendNew(acc, seenKeys, yielded) ==
    IF yielded = <<>> THEN [slots |-> acc, seen |-> seenKeys]
    ELSE IF SlotKey(Head(yielded)) \in seenKeys
         THEN AppendNew(acc, seenKeys, Tail(yielded))
         ELSE AppendNew(Append(acc, Head(yielded)),
                        seenKeys \cup {SlotKey(Head(yielded))}, Tail(yielded))

\* a calendar response: a page with its blocked-slot feed (cut = the number of
\* slots consumed before an exception inside the try block, -1 for none), or a failure
FailResponses ==
    {[kind |-> "challenge", status |-> 0, page |-> "none", feed |-> "none", cut |-> -1],
     [kind |-> "error", status |-> 0, page |-> "none", feed |-> "none", cut |-> -1]}
    \cup {[kind |-> "http", status |-> st, page |-> "none", feed |-> "none", cut |-> -1] :
            st \in HttpErrorStatuses}

OkResponses(pages, feeds, cuts) ==
    {[kind |-> "ok", status |-> 200, page |-> pg, feed |-> fd, cut |-> c] :
        pg \in pages, fd \in feeds, c \in cuts}

Responses ==
    FailResponses \cup OkResponses({"PageA"}, EvFeeds, {-1})
                  \cup OkResponses({"PageB"}, {"FeedEmpty", "FeedBlocks"}, {-1})
                  \cup OkResponses({"PageEmpty"}, {"FeedBlocks"}, {-1})
                  \cup OkResponses({"PageA", "PageB"}, {"FeedEmpty"}, {1})

PlainResponses == OkResponses({"PageA"}, {"FeedEmpty"}, {-1})

\* last: op is the step taken; wait and warm the sleep and the requests of a
\* warm-up, logged whether it ended in the warning of line 171; resp how the
\* try block ended; page, feed, cut the response; yielded
\* what the parser produced; before is len(slots) when the iteration began
NoLast ==
    [op |-> "none", wait |-> 0, warm |-> <<>>, logged |-> FALSE, resp |-> "none",
     status |-> 0,
     page |-> "none", feed |-> "none", cut |-> -1, yielded |-> <<>>, before |-> 0]

Combo == <<evF, evD, evS>>

CurFacility == FACILITIES[evF]
CurSport == CurFacility.sports[evS]
CurDate == target_dates[evD]

\* mutant of LoopCondition: one retry too many
LoopConditionOffByOne == retry_count <= max_retries + 1 /\ ~success

\* the condition of the while loop (line 181)
LoopCondition == retry_count <= max_retries /\ ~success

EvInit ==
    /\ evPc = "facility"
    /\ target_dates \in DateInputs
    /\ evF = 1 /\ evD = 1 /\ evS = 1
    /\ retry_count = 0 /\ success = FALSE /\ broke = FALSE
    /\ slots = <<>> /\ seen = {} /\ errors = 0
    /\ initialized_facilities = {}
    /\ attemptLog = <<>> /\ calTotal = 0
    /\ last = NoLast
    /\ offered = {} /\ gaveUp = {} /\ visited = {} /\ disturbed = 0 /\ deviating = FALSE

\* may the server deviate in the current combination?
MayDisturb == deviating \/ disturbed < MaxDisturbed

\* mutant of InitialWarm: a failing home page ends the warm-up
InitialWarmOneTry(home, booking) ==
    IF home THEN <<<<"home", TRUE>>, <<"booking", booking>>>> ELSE <<<<"home", FALSE>>>>

\* Lines 141-167: the requests of the first warm-up of a facility and whether
\* each went through: the home page in a try of its own (lines 144-155), then
\* the booking page whatever became of the home page
InitialWarm(home, booking) == <<<<"home", home>>, <<"booking", booking>>>>

\* Lines 155-171: the warning of line 171 is reached from the booking page
\* alone; the except clause of the home page passes (line 155)
WarmLogged(home, booking) == ~booking

\* Lines 138-173: the warm-up of a facility; both requests are made, a failure
\* of either is swallowed.
EvWarmUp ==
    /\ evPc = "facility"
    /\ \E home \in BOOLEAN, booking \in BOOLEAN :
        /\ (~home \/ ~booking) => MayDisturb
        /\ deviating' = (~home \/ ~booking)
        /\ disturbed' = IF ~home \/ ~booking THEN disturbed + 1 ELSE disturbed
        /\ initialized_facilities' =
              IF CurFacility.id \notin initialized_facilities /\ booking
              THEN initialized_facilities \cup {CurFacility.id}
              ELSE initialized_facilities
        /\ last' = [NoLast EXCEPT !.op = "warmup",
                       !.warm = IF CurFacility.id \notin initialized_facilities
                                THEN InitialWarm(home, booking) ELSE <<>>,
                       !.logged = CurFacility.id \notin initialized_facilities
                                  /\ WarmLogged(home, booking)]
    /\ evPc' = "attempt"
    /\ evD' = 1 /\ evS' = 1
    /\ retry_count' = 0 /\ success' = FALSE /\ broke' = FALSE
    /\ attemptLog' = <<>>
    /\ UNCHANGED <<target_dates, evF, slots, seen, errors, calTotal, offered, gaveUp,
                   visited>>

\* mutant of Handler: an exception that is neither a challenge nor an HTTP
\* error ends the combination at once
HandlerBreaksOnError(kind, status) ==
    CASE kind = "challenge" -> "retry"
      [] kind = "http" -> IF Handled403(status) THEN "retry" ELSE "break"
      [] OTHER -> "break"

\* mutant of Handler: an HTTP error is retried like a challenge
HandlerRetriesHttp(kind, status) == "retry"

\* what the except clauses do with a failed iteration: "retry" or "break"
Handler(kind, status) ==
    CASE kind = "challenge" -> "retry"
      [] kind = "http" -> IF Handled403(status) THEN "retry" ELSE "break"
      [] OTHER -> "retry"

\* Lines 223-239 for a page and its feed: the court ids, the blocked set and
\* the slots the parser yields (tabulated once per input).
\* the largest pages argument of collect_slots and ltm.fetch_slots
MaxPages == 2

\* datetime.now(timezone).date() during the run
Today == 1

\* the days a calendar request may be about
ModelDays == 0..(Today + 4 * MaxPages)

ParsedResponse ==
    [pg \in EvPages, fd \in EvFeeds, d \in ModelDays, f \in 1..Len(FACILITIES),
     sp \in 1..2 |->
        LET blocked == _fetch_blocked_slots(_extract_court_ids(PageNamed(pg)), FeedNamed(fd))
        IN  [tag |-> blocked.tag,
             yielded |-> IF blocked.tag = "raise" \/ sp > Len(FACILITIES[f].sports) THEN <<>>
                         ELSE _parse_calendar_html(PageNamed(pg), d, blocked.set, FACILITIES[f],
                                                   FACILITIES[f].sports[sp])]]

\* the outcome of one iteration for a response and what its page and feed parse
\* to: how the try block ends, what was appended before
TryBlockOf(resp, parsed) ==
    LET yielded == parsed.yielded
        taken == IF resp.cut = -1 \/ resp.cut >= Len(yielded) THEN yielded
                 ELSE SubSeq(yielded, 1, resp.cut)
        app == AppendNew(slots, seen, taken)
    IN  IF resp.kind # "ok"
        THEN [end |-> resp.kind, slots |-> slots, seen |-> seen, yielded |-> <<>>]
        ELSE IF parsed.tag = "raise"
        THEN [end |-> "error", slots |-> slots, seen |-> seen, yielded |-> <<>>]
        ELSE [end |-> IF resp.cut = -1 THEN "ok" ELSE "error",
              slots |-> app.slots, seen |-> app.seen, yielded |-> yielded]

TryBlock(resp) == TryBlockOf(resp, ParsedResponse[resp.page, resp.feed, CurDate, evF, evS])

\* how an iteration is recorded: "ok", or the exception that ended the try block
\* ("error" for any exception that is neither a challenge nor an HTTPError)
LogEntry(resp, end) ==
    IF resp.kind = "http" THEN (IF resp.status = 403 THEN "http403" ELSE "http_other")
    ELSE end

\* the warm-up of a retry: the booking page is requested only if the home page
\* request did not raise (one try block around both)
RetryWarm(home, booking) ==
    IF home THEN <<<<"home", TRUE>>, <<"booking", booking>>>> ELSE <<<<"home", FALSE>>>>

\* Lines 181-214: a retry iteration starts by waiting 2 * retry_count seconds and
\* re-running the warm-up, whose failure is swallowed.
EvRetryWarm ==
    /\ evPc = "attempt"
    /\ LoopCondition /\ ~broke
    /\ retry_count > 0
    /\ \E home \in BOOLEAN, booking \in BOOLEAN :
        /\ ~home => booking
        /\ (~home \/ ~booking) => MayDisturb
        /\ deviating' = (deviating \/ ~home \/ ~booking)
        /\ disturbed' = IF (~home \/ ~booking) /\ ~deviating THEN disturbed + 1
                         ELSE disturbed
        /\ last' = [NoLast EXCEPT !.op = "rewarm", !.wait = 2 * retry_count,
                                  !.warm = RetryWarm(home, booking)]
    /\ evPc' = "request"
    /\ UNCHANGED <<target_dates, evF, evD, evS, retry_count, success, broke, slots, seen,
                   errors, initialized_facilities, attemptLog, calTotal, offered, gaveUp,
                   visited>>

\* Lines 216-276: the calendar request of an iteration, the server answering it
\* with one of responses, the try block and its except clauses.  An answer
\* outside plain counts as a deviation of the server.
EvIteration(resp, r, plain) ==
    LET deviates == resp \notin plain
        handler == Handler(r.end, resp.status)
    IN  /\ deviates => MayDisturb
        /\ resp.cut # -1 => resp.cut <= Len(r.yielded)
        /\ deviating' = (deviating \/ deviates)
        /\ disturbed' = IF deviates /\ ~deviating THEN disturbed + 1 ELSE disturbed
        /\ calTotal' = calTotal + 1
        /\ visited' = visited \cup {Combo}
        /\ attemptLog' = Append(attemptLog, LogEntry(resp, r.end))
        /\ slots' = r.slots
        /\ seen' = r.seen
        /\ success' = (r.end = "ok")
        /\ offered' = IF r.end = "ok" THEN offered \cup KeysOf(r.yielded) ELSE offered
        /\ errors' = IF r.end = "ok" THEN errors
                     ELSE IF handler = "break" \/ retry_count = 0 THEN errors + 1
                     ELSE errors
        /\ retry_count' = IF r.end # "ok" /\ handler = "retry"
                          THEN retry_count + 1 ELSE retry_count
        /\ broke' = (r.end # "ok" /\ handler = "break")
        /\ last' = [op |-> "attempt", wait |-> 0, warm |-> <<>>, logged |-> FALSE,
                    resp |-> r.end, status |-> resp.status, page |-> resp.page,
                    feed |-> resp.feed, cut |-> resp.cut, yielded |-> r.yielded,
                    before |-> Len(slots)]

EvAttemptWith(responses, plain) ==
    /\ \/ evPc = "attempt" /\ LoopCondition /\ ~broke /\ retry_count = 0
       \/ evPc = "request"
    /\ \E resp \in responses : EvIteration(resp, TryBlock(resp), plain)
    /\ evPc' = "attempt"
    /\ UNCHANGED <<target_dates, evF, evD, evS, initialized_facilities, gaveUp>>

\* mutant of NextPos: a combination that ends without success ends the call
NextPosAbortsOnFailure ==
    IF ~success THEN [pc |-> "done", f |-> evF, d |-> evD, s |-> evS]
    ELSE IF evS < Len(CurFacility.sports)
    THEN [pc |-> "attempt", f |-> evF, d |-> evD, s |-> evS + 1]
    ELSE IF evD < Len(target_dates)
    THEN [pc |-> "attempt", f |-> evF, d |-> evD + 1, s |-> 1]
    ELSE IF evF < Len(FACILITIES)
    THEN [pc |-> "facility", f |-> evF + 1, d |-> 1, s |-> 1]
    ELSE [pc |-> "done", f |-> evF, d |-> evD, s |-> evS]

\* the for loops of lines 138, 175, 176: the position after the current
\* combination, "done" (return slots, line 287) after the last one
NextPos ==
    IF evS < Len(CurFacility.sports)
    THEN [pc |-> "attempt", f |-> evF, d |-> evD, s |-> evS + 1]
    ELSE IF evD < Len(target_dates)
    THEN [pc |-> "attempt", f |-> evF, d |-> evD + 1, s |-> 1]
    ELSE IF evF < Len(FACILITIES)
    THEN [pc |-> "facility", f |-> evF + 1, d |-> 1, s |-> 1]
    ELSE [pc |-> "done", f |-> evF, d |-> evD, s |-> evS]

\* Lines 175-181 and 278-287: the loop is left (success, break or retries used
\* up); on to the next sport, date, facility, or return slots.
EvAdvance ==
    /\ evPc = "attempt"
    /\ broke \/ ~LoopCondition
    /\ gaveUp' = IF success THEN gaveUp ELSE gaveUp \cup {<<Combo, Len(attemptLog)>>}
    /\ evPc' = NextPos.pc /\ evF' = NextPos.f /\ evD' = NextPos.d /\ evS' = NextPos.s
    /\ retry_count' = 0 /\ success' = FALSE /\ broke' = FALSE
    /\ attemptLog' = <<>>
    /\ last' = NoLast
    /\ deviating' = FALSE
    /\ UNCHANGED <<target_dates, slots, seen, errors, initialized_facilities, calTotal,
                   offered, visited, disturbed>>

EvAttempt == EvAttemptWith(Responses, PlainResponses)

EvNext == EvWarmUp \/ EvRetryWarm \/ EvAttempt \/ EvAdvance

(***************************************************************************)
(* sources/ltm.py.  A dict is a list of <<key, value>> pairs in insertion  *)
(* order.  A page is the parsed document:                                  *)
(*   title       the h1 text, "" when there is no h1;                      *)
(*   price_elems the "div.pricebox div.price" elements, each [code, value] *)
(*               with code "" when no class names a code and value = the   *)
(*               float of the text in cents, -1 when float() raises;       *)
(*   css         the <<code, color>> matches of PRICE_COLOR_PATTERN in the *)
(*               style elements, in order;                                 *)
(*   calendars   the div.calendar containers: [cid, heads, bodies], a body *)
(*               being [has_header, labels, columns], a column [cid,       *)
(*               cells] and a cell [classes, begin, size];                 *)
(*   next        [nav, href]: is there a .time-nav-right element, and its  *)
(*               data-href (None when absent).                             *)
(***************************************************************************)
BASE_URL == "BASE"

SEED_URLS == <<BASE_URL, BASE_URL \o "?c=662">>

PROVIDER_LTM == "ltm"

DictHas(d, k) == \E i \in 1..Len(d) : d[i][1] = k

DictGet(d, k) == d[CHOOSE i \in 1..Len(d) : d[i][1] = k][2]

\* d[k] = v: a present key keeps its position
DictSet(d, k, v) ==
    IF DictHas(d, k) THEN [i \in 1..Len(d) |-> IF d[i][1] = k THEN <<k, v>> ELSE d[i]]
    ELSE Append(d, <<k, v>>)

RECURSIVE DictUpdate(_, _)
DictUpdate(d, other) ==
    IF other = <<>> THEN d
    ELSE DictUpdate(DictSet(d, Head(other)[1], Head(other)[2]), Tail(other))

\* int(text): surrounding whitespace stripped, an optional sign, then digits
RECURSIVE DigitsValue(_, _)
DigitsValue(s, acc) ==
    IF s = <<>> THEN acc ELSE DigitsValue(Tail(s), 10 * acc + DigitVal[Head(s)])

PyInt(text) ==
    LET t == Strip(text)
        signed == t # <<>> /\ Head(t) \in {"-", "+"}
        digits == IF signed THEN Tail(t) ELSE t
    IN  IF digits = <<>> \/ \E i \in 1..Len(digits) : ~IsDigit(digits[i]) THEN RaiseResult
        ELSE IntResult(IF signed /\ Head(t) = "-" THEN 0 - DigitsValue(digits, 0)
                       ELSE DigitsValue(digits, 0))

\* the class names that start with "price" and are not "price"
PriceCodes == {"price1", "price2", "price3"}

\* next((c for c in classes if c.startswith("price") and c != "price"), None)
RECURSIVE FirstPriceCode(_)
FirstPriceCode(classes) ==
    IF classes = <<>> THEN "<None>"
    ELSE IF Head(classes) \in PriceCodes THEN Head(classes)
    ELSE FirstPriceCode(Tail(classes))

RECURSIVE parse_price_map_from(_, _)
parse_price_map_from(elems, prices) ==
    IF elems = <<>> THEN prices
    ELSE LET e == Head(elems)
         IN  parse_price_map_from(Tail(elems),
                 IF e.code = "" \/ e.value = -1 THEN prices
                 ELSE DictSet(prices, e.code, e.value))

parse_price_map(page) == parse_price_map_from(page.price_elems, <<>>)

parse_price_colors(page) == DictUpdate(<<>>, page.css)

\* mutant of DurationBlocks: the span is taken as it is written
DurationBlocksAsWritten(span_raw) ==
    LET span == PyInt(span_raw)
    IN  IF span.tag = "raise" THEN 1 ELSE span.v

\* lines 188-192: max(int(span_raw), 1), or 1 when int() raises
DurationBlocks(span_raw) ==
    LET span == PyInt(span_raw)
    IN  IF span.tag = "raise" THEN 1
        ELSE IF span.v > 1 THEN span.v ELSE 1

\* ltm._build_slot: the Slot of a div.slot element, or None
build_slot_ltm(cell, court_id, court_label, calendar_id, calendar_label, price_map) ==
    LET classes == SelectSeq(cell.classes, LAMBDA c : c # "slot")
        span_raw == IF Truthy(cell.size) THEN cell.size ELSE <<"1">>
        start_dt == PyInt(cell.begin)
        duration_blocks == DurationBlocks(span_raw)
        price_code == FirstPriceCode(classes)
    IN  IF \A i \in 1..Len(classes) : classes[i] # "av" THEN NoSlot
        ELSE IF ~Truthy(cell.begin) THEN NoSlot
        ELSE IF start_dt.tag = "raise" THEN NoSlot
        ELSE [ none |-> FALSE,
               calendar_id |-> calendar_id,
               calendar_label |-> calendar_label,
               court_id |-> court_id,
               court_label |-> court_label,
               start |-> start_dt.v,
               end |-> start_dt.v + duration_blocks * 60 * 60,
               duration_minutes |-> duration_blocks * 60,
               price_eur |-> IF DictHas(price_map, price_code)
                             THEN DictGet(price_map, price_code) ELSE -1,
               price_code |-> price_code,
               provider |-> PROVIDER_LTM,
               sport |-> "tennis" ]

RECURSIVE ColumnSlots(_, _, _, _, _, _)
ColumnSlots(cells, court_id, label, calendar_id, calendar_label, price_map) ==
    IF cells = <<>> THEN <<>>
    ELSE LET slot == build_slot_ltm(Head(cells), court_id, label, calendar_id,
                                    calendar_label, price_map)
             rest == ColumnSlots(Tail(cells), court_id, label, calendar_id,
                                 calendar_label, price_map)
         IN  IF slot.none THEN rest ELSE <<slot>> \o rest

\* zip(court_labels, court_columns): the shorter length decides
RECURSIVE ZipCourts(_, _, _, _, _)
ZipCourts(labels, columns, calendar_id, calendar_label, price_map) ==
    IF labels = <<>> \/ columns = <<>> THEN <<>>
    ELSE ColumnSlots(Head(columns).cells, Head(columns).cid, Head(labels), calendar_id,
                     calendar_label, price_map)
         \o ZipCourts(Tail(labels), Tail(columns), calendar_id, calendar_label, price_map)

\* str.isdigit(): every character is a digit, the superscript two included,
\* which int() does not accept
str_isdigit(text) ==
    text # <<>> /\ \A i \in 1..Len(text) : IsDigit(text[i]) \/ text[i] = "^2"

\* stands in the list of yielded slots for an exception no handler catches
Aborted == [none |-> FALSE, aborted |-> TRUE]

\* lines 121-124: int(timestamp_raw) behind "timestamp_raw and
\* timestamp_raw.isdigit()" raises ValueError
DayStartRaises(head_tag) ==
    /\ Truthy(head_tag.dt) /\ str_isdigit(head_tag.dt)
    /\ \E i \in 1..Len(head_tag.dt) : ~IsDigit(head_tag.dt[i])

_parse_day_slots(head_tag, body_tag, price_map, calendar_id, calendar_label) ==
    IF DayStartRaises(head_tag) THEN <<Aborted>>
    ELSE IF ~body_tag.has_header THEN <<>>
    ELSE ZipCourts(body_tag.labels, body_tag.columns, calendar_id, calendar_label, price_map)

RECURSIVE ZipDays(_, _, _, _, _)
ZipDays(heads, bodies, price_map, calendar_id, calendar_label) ==
    IF heads = <<>> \/ bodies = <<>> THEN <<>>
    ELSE _parse_day_slots(Head(heads), Head(bodies), price_map, calendar_id, calendar_label)
         \o ZipDays(Tail(heads), Tail(bodies), price_map, calendar_id, calendar_label)

parse_available_slots(calendar, price_map, calendar_label) ==
    ZipDays(calendar.heads, calendar.bodies, price_map, calendar.cid, calendar_label)

RECURSIVE CalendarsSlots(_, _, _)
CalendarsSlots(calendars, price_map, calendar_label) ==
    IF calendars = <<>> THEN <<>>
    ELSE parse_available_slots(Head(calendars), price_map, calendar_label)
         \o CalendarsSlots(Tail(calendars), price_map, calendar_label)

\* what a generator yielded before the exception, and whether one was raised
RECURSIVE YieldedBefore(_)
YieldedBefore(list) ==
    IF list = <<>> \/ "aborted" \in DOMAIN Head(list) THEN <<>>
    ELSE <<Head(list)>> \o YieldedBefore(Tail(list))

Aborts(list) == \E i \in 1..Len(list) : "aborted" \in DOMAIN list[i]

\* the hrefs the model's pages use that are relative to BASE_URL
RelativeHrefs == {"?w=2", "?w=3", "?w=4", "?w=5", "?w=6", "?w=7"}

urljoin(base, href) == IF href \in RelativeHrefs THEN base \o href ELSE href

\* extract_next_href: None without the nav element, without a data-href, or
\* when the href is blank or "#"
extract_next_href(page) ==
    IF ~page.next.nav THEN "<None>"
    ELSE IF page.next.href \in {"<None>", "", " ", "#"} THEN "<None>"
    ELSE page.next.href

\* mutant of PageColorPrice: the last value per color
RECURSIVE PageColorPriceLastWins(_, _, _)
PageColorPriceLastWins(price_items, page_colors, acc) ==
    IF price_items = <<>> THEN acc
    ELSE LET code == Head(price_items)[1]
             color == IF DictHas(page_colors, code) THEN DictGet(page_colors, code) ELSE ""
         IN  PageColorPriceLastWins(Tail(price_items), page_colors,
                 IF color # "" THEN DictSet(acc, color, Head(price_items)[2]) ELSE acc)

\* lines 262-266: the color -> value map of one page, first value per color
RECURSIVE PageColorPrice(_, _, _)
PageColorPrice(price_items, page_colors, acc) ==
    IF price_items = <<>> THEN acc
    ELSE LET code == Head(price_items)[1]
             color == IF DictHas(page_colors, code) THEN DictGet(page_colors, code) ELSE ""
         IN  PageColorPrice(Tail(price_items), page_colors,
                 IF color # "" /\ ~DictHas(acc, color)
                 THEN DictSet(acc, color, Head(price_items)[2]) ELSE acc)

\* mutant of BridgeColors: a code that has a value is bridged again
RECURSIVE BridgeColorsResolvedToo(_, _, _, _)
BridgeColorsResolvedToo(color_items, lookup, page_color_price, color_price_map) ==
    IF color_items = <<>> THEN lookup
    ELSE LET code == Head(color_items)[1]
             color == Head(color_items)[2]
         IN  BridgeColorsResolvedToo(Tail(color_items),
                 IF DictHas(page_color_price, color)
                 THEN DictSet(lookup, code, DictGet(page_color_price, color))
                 ELSE IF DictHas(color_price_map, color)
                 THEN DictSet(lookup, code, DictGet(color_price_map, color))
                 ELSE lookup,
                 page_color_price, color_price_map)

\* lines 269-276: codes without a value take the value bound to their color
RECURSIVE BridgeColors(_, _, _, _)
BridgeColors(color_items, lookup, page_color_price, color_price_map) ==
    IF color_items = <<>> THEN lookup
    ELSE LET code == Head(color_items)[1]
             color == Head(color_items)[2]
         IN  BridgeColors(Tail(color_items),
                 IF DictHas(lookup, code) THEN lookup
                 ELSE IF DictHas(page_color_price, color)
                 THEN DictSet(lookup, code, DictGet(page_color_price, color))
                 ELSE IF DictHas(color_price_map, color)
                 THEN DictSet(lookup, code, DictGet(color_price_map, color))
                 ELSE lookup,
                 page_color_price, color_price_map)

\* lines 254-276: price_lookup and the seed's color map after a page
PriceStep(lookup, color_price_map, page) ==
    LET page_colors == parse_price_colors(page)
        price_map == parse_price_map(page)
        lookup1 == IF price_map # <<>> THEN DictUpdate(lookup, price_map) ELSE lookup
        page_color_price == PageColorPrice(price_map, page_colors, <<>>)
        color_map1 == DictUpdate(color_price_map, page_color_price)
    IN  IF page_colors = <<>> THEN [lookup |-> lookup1, colors |-> color_price_map]
        ELSE [lookup |-> BridgeColors(page_colors, lookup1, page_color_price, color_map1),
              colors |-> color_map1]

(***************************************************************************)
(* The sites that answer the LTM requests: a site maps a requested URL to  *)
(* [ok, resolved, page]; ok = FALSE stands for session.get or              *)
(* raise_for_status raising.                                               *)
(***************************************************************************)
\* the decimal text of a natural number
RECURSIVE NumText(_)
NumText(n) == IF n < 10 THEN IntToStr(n) ELSE NumText(n \div 10) \o IntToStr(n % 10)

\* the instant hh:mm of day d
At(d, hh, mm) == d * DaySeconds + hh * 60 * 60 + mm * 60

LtmCell(classes, begin, size) == [classes |-> classes, begin |-> begin, size |-> size]

AvCell(start, size, code) == LtmCell(<<"slot", "av", code>>, NumText(start), size)

\* one calendar of one day and one court
Cal(cid, cells) ==
    [ cid |-> cid, heads |-> <<[dt |-> None]>>,
      bodies |-> <<[has_header |-> TRUE, labels |-> <<<<"P", "l", "a", "t", "z", " ", "1">>>>,
                    columns |-> <<[cid |-> <<"k", "1">>, cells |-> cells]>>]>> ]

\* a calendar of two days: the data-dt of the second day's head is given
CalTwoDays(cid, cells, dt, more) ==
    [ cid |-> cid, heads |-> <<[dt |-> None], [dt |-> dt]>>,
      bodies |-> <<[has_header |-> TRUE, labels |-> <<<<"P", "l", "a", "t", "z", " ", "1">>>>,
                    columns |-> <<[cid |-> <<"k", "1">>, cells |-> cells]>>],
                   [has_header |-> TRUE, labels |-> <<<<"P", "l", "a", "t", "z", " ", "1">>>>,
                    columns |-> <<[cid |-> <<"k", "1">>, cells |-> more]>>]>> ]

LPage(price_elems, calendars, href) ==
    [ title |-> "LTM", price_elems |-> price_elems, css |-> <<>>,
      calendars |-> calendars, next |-> [nav |-> href # "<NoNav>", href |-> href] ]

LPageCss(price_elems, css, calendars, href) ==
    [ title |-> "LTM", price_elems |-> price_elems, css |-> css,
      calendars |-> calendars, next |-> [nav |-> href # "<NoNav>", href |-> href] ]

Price1 == <<[code |-> "price1", value |-> 1200]>>
Price1Raised == <<[code |-> "price1", value |-> 1500]>>
Price2 == <<[code |-> "price2", value |-> 1500]>>

CellTen == AvCell(At(1, 10, 0), <<"1">>, "price1")
CellEleven == AvCell(At(1, 11, 0), <<"2">>, "price2")
\* data-size 0 and -2, no data-size, a data-size that is no number
CellSizes ==
    << AvCell(At(1, 12, 0), <<"0">>, "price1"), AvCell(At(1, 13, 0), <<"-", "2">>, "price1"),
       AvCell(At(1, 14, 0), None, "price1"), AvCell(At(1, 15, 0), <<"x">>, "price1"),
       LtmCell(<<"slot", "av">>, None, <<"1">>), LtmCell(<<"slot", "av">>, <<"a">>, <<"1">>),
       LtmCell(<<"slot", "bk">>, NumText(At(1, 16, 0)), <<"1">>) >>
\* an hour of the day before
CellPast == AvCell(At(0, 10, 0), <<"1">>, "price1")

PageTen == LPage(Price1, <<Cal(<<"c", "1">>, <<CellTen>>)>>, "<NoNav>")
PageEleven == LPage(<<>>, <<Cal(<<"c", "6", "6", "2">>, <<CellEleven>>)>>, "<None>")
PageSizes == LPage(Price1, <<Cal(<<"c", "1">>, CellSizes \o <<CellPast>>)>>, "#")
PageTwice == LPage(Price1, <<Cal(<<"c", "1">>, <<CellTen>>), Cal(<<"c", "1">>, <<CellTen>>)>>, "<NoNav>")
\* the head of the second day carries data-dt = dt
PageTwoDays(dt) ==
    LPage(Price1, <<CalTwoDays(<<"c", "1">>, <<CellTen>>, dt, <<CellEleven>>)>>, "?w=2")
PageTenNext(href) == LPage(Price1, <<Cal(<<"c", "1">>, <<CellTen>>)>>, href)
PageElevenNext(href) == LPage(<<>>, <<Cal(<<"c", "1">>, <<CellEleven>>)>>, href)
PageTenEleven(href) == LPage(Price1, <<Cal(<<"c", "1">>, <<CellTen, CellEleven>>)>>, href)
\* a later page whose price box states price1 again, with another value
PageTenRaised == LPage(Price1Raised, <<Cal(<<"c", "1">>, <<CellTen>>)>>, "<None>")
\* price1 has a value and is red, price2 has none and is red as well
PageRedPair(href) ==
    LPageCss(Price1, <<<<"price1", "red">>, <<"price2", "red">>>>,
             <<Cal(<<"c", "1">>, <<CellTen, CellEleven>>)>>, href)
\* a later page whose price box gives price2 a value of its own
PageElevenPriced == LPage(Price2, <<Cal(<<"c", "1">>, <<CellEleven>>)>>, "<None>")
\* price1 is red and price2 blue, both with a value
PageRedBlue(href) ==
    LPageCss(Price1 \o Price2, <<<<"price1", "red">>, <<"price2", "blue">>>>,
             <<Cal(<<"c", "1">>, <<CellTen, CellEleven>>)>>, href)
\* a later page without price box on which price1 is blue
PageTenBlue ==
    LPageCss(<<>>, <<<<"price1", "blue">>>>, <<Cal(<<"c", "1">>, <<CellTen>>)>>, "<None>")

\* price1 (12.00) and price2 (15.00) are red, and so is price3, which has no value
PageSharedColor ==
    LPageCss(Price1 \o Price2,
             <<<<"price3", "red">>, <<"price2", "red">>, <<"price1", "red">>>>,
             <<Cal(<<"c", "1">>, <<AvCell(At(1, 12, 0), <<"1">>, "price3")>>)>>, "<None>")
\* price1 has a value and is red
PageRed(href) ==
    LPageCss(Price1, <<<<"price1", "red">>>>, <<Cal(<<"c", "1">>, <<CellTen>>)>>, href)
\* a page without price box on which the code of its one cell is red
PageOnlyRed(code) ==
    LPageCss(<<>>, <<<<code, "red">>>>,
             <<Cal(<<"c", "1">>, <<AvCell(At(1, 12, 0), <<"1">>, code)>>)>>, "<None>")

LtmUrls == {SEED_URLS[1], SEED_URLS[2]} \cup {BASE_URL \o href : href \in RelativeHrefs}

Answer(url, page) == [ok |-> TRUE, resolved |-> url, page |-> page]

Failure == [ok |-> FALSE, resolved |-> "", page |-> PageEleven]

\* a site from the answers given for some URLs; every other request fails
SiteOf(answers) ==
    [u \in LtmUrls |-> IF u \in DOMAIN answers THEN answers[u] ELSE Failure]

U1 == SEED_URLS[1]
U2 == SEED_URLS[2]
W2 == BASE_URL \o "?w=2"
W3 == BASE_URL \o "?w=3"
W4 == BASE_URL \o "?w=4"
W5 == BASE_URL \o "?w=5"
W6 == BASE_URL \o "?w=6"
W7 == BASE_URL \o "?w=7"

LtmSites ==
    { "Plain", "Sizes", "SameCellOnBothSeeds", "Redirect", "TwoContainers", "Weeks",
      "WeeksOverlap", "SelfLoop", "Cycle", "FirstSeedFails", "SecondSeedFails",
      "SecondPageFails", "PriceRestated", "BridgedThenRestated", "Recolored",
      "LinksToSecondSeed", "Endless", "DayStamps", "DayStampSuperscript",
      "SharedColor", "ColorAcrossPages", "ResolvedLater" }

SiteNamed(name) ==
    CASE name = "Plain" ->
            SiteOf((U1 :> Answer(U1, PageTen)) @@ (U2 :> Answer(U2, PageEleven)))
      [] name = "Sizes" ->
            SiteOf((U1 :> Answer(U1, PageSizes)) @@ (U2 :> Answer(U2, PageEleven)))
      [] name = "SameCellOnBothSeeds" ->
            SiteOf((U1 :> Answer(U1, PageTen)) @@ (U2 :> Answer(U2, PageTen)))
      [] name = "Redirect" ->
            SiteOf((U1 :> Answer(U1, PageTen)) @@ (U2 :> Answer(U1, PageTen)))
      [] name = "TwoContainers" ->
            SiteOf((U1 :> Answer(U1, PageTwice)) @@ (U2 :> Answer(U2, PageEleven)))
      [] name = "Weeks" ->
            SiteOf((U1 :> Answer(U1, PageTenNext("?w=2")))
                   @@ (W2 :> Answer(W2, PageElevenNext("?w=3")))
                   @@ (W3 :> Answer(W3, PageSizes))
                   @@ (U2 :> Answer(U2, PageEleven)))
      [] name = "WeeksOverlap" ->
            SiteOf((U1 :> Answer(U1, PageTenEleven("?w=2")))
                   @@ (W2 :> Answer(W2, PageElevenNext("<None>")))
                   @@ (U2 :> Answer(U2, PageEleven)))
      [] name = "SelfLoop" ->
            SiteOf((U1 :> Answer(U1, PageTenNext(U1))) @@ (U2 :> Answer(U2, PageEleven)))
      [] name = "Cycle" ->
            SiteOf((U1 :> Answer(U1, PageTenNext("?w=2")))
                   @@ (W2 :> Answer(W2, PageElevenNext(U1)))
                   @@ (U2 :> Answer(U2, PageElevenNext(W2))))
      [] name = "FirstSeedFails" ->
            SiteOf((U2 :> Answer(U2, PageEleven)))
      [] name = "SecondSeedFails" ->
            SiteOf((U1 :> Answer(U1, PageTen)))
      [] name = "PriceRestated" ->
            SiteOf((U1 :> Answer(U1, PageTenNext("?w=2")))
                   @@ (W2 :> Answer(W2, PageTenRaised))
                   @@ (U2 :> Answer(U2, PageEleven)))
      [] name = "ResolvedLater" ->
            SiteOf((U1 :> Answer(U1, PageElevenNext("?w=2")))
                   @@ (W2 :> Answer(W2, PageElevenPriced))
                   @@ (U2 :> Answer(U2, PageEleven)))
      [] name = "BridgedThenRestated" ->
            SiteOf((U1 :> Answer(U1, PageRedPair("?w=2")))
                   @@ (W2 :> Answer(W2, PageElevenPriced))
                   @@ (U2 :> Answer(U2, PageEleven)))
      [] name = "Recolored" ->
            SiteOf((U1 :> Answer(U1, PageRedBlue("?w=2")))
                   @@ (W2 :> Answer(W2, PageTenBlue))
                   @@ (U2 :> Answer(U2, PageEleven)))
      [] name = "LinksToSecondSeed" ->
            SiteOf((U1 :> Answer(U1, PageTenNext(U2))) @@ (U2 :> Answer(U2, PageEleven)))
      [] name = "DayStamps" ->
            SiteOf((U1 :> Answer(U1, PageTwoDays(<<"1", "x">>)))
                   @@ (W2 :> Answer(W2, PageTwoDays(NumText(At(2, 0, 0)))))
                   @@ (U2 :> Answer(U2, PageEleven)))
      [] name = "DayStampSuperscript" ->
            SiteOf((U1 :> Answer(U1, PageTwoDays(<<"^2">>)))
                   @@ (W2 :> Answer(W2, PageTen)) @@ (U2 :> Answer(U2, PageEleven)))
      [] name = "SharedColor" ->
            SiteOf((U1 :> Answer(U1, PageSharedColor)) @@ (U2 :> Answer(U2, PageEleven)))
      [] name = "ColorAcrossPages" ->
            SiteOf((U1 :> Answer(U1, PageRed("?w=2")))
                   @@ (W2 :> Answer(W2, PageOnlyRed("price2")))
                   @@ (U2 :> Answer(U2, PageOnlyRed("price3"))))
      [] name = "Endless" ->
            SiteOf((U1 :> Answer(U1, PageTenNext("?w=2")))
                   @@ (W2 :> Answer(W2, PageTenNext("?w=3")))
                   @@ (W3 :> Answer(W3, PageTenNext("?w=4")))
                   @@ (W4 :> Answer(W4, PageTenNext("?w=2")))
                   @@ (U2 :> Answer(U2, PageElevenNext("?w=5")))
                   @@ (W5 :> Answer(W5, PageElevenNext("?w=6")))
                   @@ (W6 :> Answer(W6, PageElevenNext("?w=7")))
                   @@ (W7 :> Answer(W7, PageElevenNext("?w=5"))))
      [] OTHER ->
            SiteOf((U1 :> Answer(U1, PageTenNext("?w=2"))) @@ (U2 :> Answer(U2, PageEleven)))

\* fetch_html: the answer of the site to a request
fetch_html(site, url) == SiteNamed(site)[url]

(***************************************************************************)
(* ltm.fetch_slots as a state machine: one action per iteration of the     *)
(* page loop, one for leaving the page loop of a seed.                     *)
(***************************************************************************)
LtmIdle ==
    /\ ltmPc = "idle" /\ ltmSite = "Plain" /\ ltmPages = 1
    /\ ltmSeed = 1 /\ page_index = 0 /\ ltmUrl = SEED_URLS[1] /\ ltmStop = FALSE
    /\ seen_urls = {} /\ price_lookup = <<>>
    /\ color_price_by_seed = [i \in 1..Len(SEED_URLS) |-> <<>>]
    /\ ltmOut = <<>> /\ ltmFetched = <<>>

LtmInit(sites) ==
    /\ ltmPc = "loop" /\ ltmSite \in sites /\ ltmPages \in 1..MaxPages
    /\ ltmSeed = 1 /\ page_index = 0 /\ ltmUrl = SEED_URLS[1] /\ ltmStop = FALSE
    /\ seen_urls = {} /\ price_lookup = <<>>
    /\ color_price_by_seed = [i \in 1..Len(SEED_URLS) |-> <<>>]
    /\ ltmOut = <<>> /\ ltmFetched = <<>>

\* Lines 243-297: one iteration of "for page_index in range(pages)" that gets
\* past the seen_urls test: the fetch, the price maps, the slots of every
\* calendar, the next link.
LtmPageStep(resp, step) ==
    LET page == resp.page
        calendar_label == IF page.title # "" THEN page.title ELSE "Tennis Booking"
        next_href == extract_next_href(page)
        absolute_next == urljoin(BASE_URL, next_href)
        seen1 == seen_urls \cup {resp.resolved}
        yielded == CalendarsSlots(page.calendars, step.lookup, calendar_label)
    IN  IF ~resp.ok
        THEN /\ ltmPc' = "raised"
             /\ ltmFetched' = Append(ltmFetched, <<ltmSeed, ltmUrl, "raise">>)
             /\ UNCHANGED <<seen_urls, price_lookup, color_price_by_seed, ltmOut,
                            ltmStop, ltmUrl, page_index>>
        ELSE IF Aborts(yielded)
        THEN /\ ltmPc' = "raised"
             /\ ltmFetched' = Append(ltmFetched, <<ltmSeed, ltmUrl, resp.resolved>>)
             /\ seen_urls' = seen1
             /\ price_lookup' = step.lookup
             /\ color_price_by_seed' = [color_price_by_seed EXCEPT ![ltmSeed] = step.colors]
             /\ ltmOut' = ltmOut \o YieldedBefore(yielded)
             /\ UNCHANGED <<ltmStop, ltmUrl, page_index>>
        ELSE /\ ltmPc' = "loop"
             /\ ltmFetched' = Append(ltmFetched, <<ltmSeed, ltmUrl, resp.resolved>>)
             /\ seen_urls' = seen1
             /\ price_lookup' = step.lookup
             /\ color_price_by_seed' = [color_price_by_seed EXCEPT ![ltmSeed] = step.colors]
             /\ ltmOut' = ltmOut \o yielded
             /\ IF next_href = "<None>" \/ absolute_next \in seen1
                THEN ltmStop' = TRUE /\ UNCHANGED <<ltmUrl, page_index>>
                ELSE ltmStop' = FALSE /\ ltmUrl' = absolute_next
                     /\ page_index' = page_index + 1

\* mutant of LtmPageOf: the color map of the first seed serves every seed
LtmPageOfFirstSeedColors(resp) ==
    LtmPageStep(resp, PriceStep(price_lookup, color_price_by_seed[1], resp.page))

LtmPageOf(resp) ==
    LtmPageStep(resp, PriceStep(price_lookup, color_price_by_seed[ltmSeed], resp.page))

\* mutant of RangeLeft: one iteration more than range(pages) has
RangeLeftOneMore(index, pages) == index <= pages

\* line 243: "for page_index in range(pages)" has another iteration
RangeLeft(index, pages) == index < pages

\* mutant of AlreadySeen: the test of line 244 never fires
AlreadySeenNever(url, urls) == FALSE

\* line 244: "if url in seen_urls: break"
AlreadySeen(url, urls) == url \in urls

LtmFetchPage ==
    /\ ltmPc = "loop" /\ ~ltmStop
    /\ RangeLeft(page_index, ltmPages)
    /\ ~AlreadySeen(ltmUrl, seen_urls)
    /\ LtmPageOf(fetch_html(ltmSite, ltmUrl))
    /\ UNCHANGED <<ltmSite, ltmPages, ltmSeed>>

\* the page loop of a seed ends (range exhausted, break at line 244, 288 or 293):
\* on to the next seed, or the generator is exhausted
LtmLeaveSeed ==
    /\ ltmPc = "loop"
    /\ ltmStop \/ ~RangeLeft(page_index, ltmPages) \/ AlreadySeen(ltmUrl, seen_urls)
    /\ IF ltmSeed < Len(SEED_URLS)
       THEN /\ ltmSeed' = ltmSeed + 1
            /\ ltmUrl' = SEED_URLS[ltmSeed + 1]
            /\ page_index' = 0 /\ ltmStop' = FALSE
            /\ ltmPc' = "loop"
       ELSE /\ ltmPc' = "done"
            /\ UNCHANGED <<ltmSeed, ltmUrl, page_index, ltmStop>>
    /\ UNCHANGED <<ltmSite, ltmPages, seen_urls, price_lookup, color_price_by_seed, ltmOut,
                   ltmFetched>>

LtmNext == LtmFetchPage \/ LtmLeaveSeed

(***************************************************************************)
(* collect_slots(sport = "tennis"): the LTM crawl, then the Eversports     *)
(* adapter, then the filter against now.                                   *)
(***************************************************************************)
\* the dates argument: [given |-> FALSE] stands for None
NoDates == [given |-> FALSE, list |-> <<>>]

Dates(list) == [given |-> TRUE, list |-> list]

ColIdle ==
    colPc = "idle" /\ colDates = NoDates /\ colServer = "plain" /\ colNow = 0 /\ colOut = <<>>

RowIdle == rowPc = "idle" /\ rowIn = <<>> /\ rowOut = <<>>

FnIdle == fnPc = "idle" /\ fnIn = <<>> /\ fnOut = <<>>

Init == EvInit /\ RowIdle /\ LtmIdle /\ ColIdle /\ FnIdle

Next ==
    \/ EvWarmUp /\ UNCHANGED <<rowVars, ltmVars, colVars, fnVars>>
    \/ EvRetryWarm /\ UNCHANGED <<rowVars, ltmVars, colVars, fnVars>>
    \/ EvAttempt /\ UNCHANGED <<rowVars, ltmVars, colVars, fnVars>>
    \/ EvAdvance /\ UNCHANGED <<rowVars, ltmVars, colVars, fnVars>>

Spec == Init /\ [][Next]_vars

(***************************************************************************)
(* _parse_calendar_html on a page of one court row, the blocked set given: *)
(* the input is drawn in the initial state, one action parses it.          *)
(***************************************************************************)
EvIdle ==
    /\ evPc = "idle"
    /\ target_dates = <<1>>
    /\ evF = 1 /\ evD = 1 /\ evS = 1
    /\ retry_count = 0 /\ success = FALSE /\ broke = FALSE
    /\ slots = <<>> /\ seen = {} /\ errors = 0
    /\ initialized_facilities = {}
    /\ attemptLog = <<>> /\ calTotal = 0
    /\ last = NoLast
    /\ offered = {} /\ gaveUp = {} /\ visited = {} /\ disturbed = 0 /\ deviating = FALSE

\* cells of court 1: on and off the half-hour grid, a three-character start,
\* an hour ending at midnight, a booked hour
tipOccupiedByMember == <<"O", "c", "c", "u", "p", "i", "e", "d", " ", "b", "y", " ", "m", "e", "m", "b", "e", "r">>
tipFreeBooked == <<"F", "r", "e", "e", ",", " ", "b", "o", "o", "k", "e", "d">>
tipBelegt == <<"b", "e", "l", "e", "g", "t">>
tipFreeWord == <<"F", "r", "e", "e">>
tipBookedWord == <<"B", "o", "o", "k", "e", "d">>

\* a free and open cell with the three tooltip attributes as given
TipCell(start, end, dot, title, aria) ==
    [Cell(start, end, tFree, title, tTrue) EXCEPT !.dot = dot, !.aria = aria]

\* free and open cells of court 1 with a tooltip: a busy token in the title, a
\* busy token after a positive one, a busy token in the aria-label, and a title
\* with a busy token behind a data-original-title without one
TipCells ==
    { TipCell(t1000, t1100, None, tipOccupiedByMember, None),
      TipCell(t1100, t1200, None, tipFreeBooked, None),
      TipCell(t1000, t1100, None, None, tipBelegt),
      TipCell(t1100, t1200, tipFreeWord, tipBookedWord, None) }

\* an open cell whose data-state is empty; a free cell with a data-price
EmptyStateCell == Cell(t1000, t1100, <<>>, None, tTrue)
PricedCell == [FreeCell(t1000, t1100) EXCEPT !.price = [kind |-> "num", cents |-> 1200]]
\* free cells without data-open, with a tooltip that holds neither a busy nor a
\* positive token, with a data-start that is no time
NoMarkerCell == Cell(t1100, t1200, tFree, None, None)
InfoTipCell == TipCell(t1100, t1200, None, <<"I", "n", "f", "o">>, None)
BadTimeCell == FreeCell(<<"1", "x", "0", "0">>, t1100)

RowCells ==
    { FreeCell(t1000, t1100), FreeCell(t1015, t1115), FreeCell(t1030, t1100),
      FreeCell(t1100, t1200), FreeCell(t930, t1030), FreeCell(t2300, t0000),
      Cell(t1000, t1100, tBooked, None, None),
      EmptyStateCell, PricedCell, NoMarkerCell, InfoTipCell, BadTimeCell } \cup TipCells

RowCellLists == {<<c>> : c \in RowCells} \cup {<<c, d>> : c \in RowCells, d \in RowCells}

\* the blocked half-hours a feed may list, by minute of the day
BlockedMinutes == {570, 600, 630, 1380}

BlockedChoices ==
    {<<JIsoDate(1), m, court1>> : m \in BlockedMinutes}
        \cup {<<JIsoDate(1), 600, court2>>, <<JIsoDate(2), 600, court1>>}

\* at most MaxBlocked blocked half-hours are listed
MaxBlocked == 2

RowInputs ==
    [cells : RowCellLists, blocked : {b \in SUBSET BlockedChoices : Cardinality(b) <= MaxBlocked},
     day : {1}]

RowInit == rowPc = "input" /\ rowIn \in RowInputs /\ rowOut = <<>>

RowPage == << [day |-> rowIn.day, rows |-> <<Row(court1, rowIn.cells)>>] >>

RowParse ==
    /\ rowPc = "input"
    /\ rowOut' = _parse_calendar_html(RowPage, rowIn.day, rowIn.blocked, FACILITIES[1],
                                      FACILITIES[1].sports[1])
    /\ rowPc' = "parsed"
    /\ UNCHANGED rowIn

InitRow == EvIdle /\ RowInit /\ LtmIdle /\ ColIdle /\ FnIdle

NextRow == RowParse /\ UNCHANGED <<evVars, ltmVars, colVars, fnVars>>

SpecRow == InitRow /\ [][NextRow]_vars

(***************************************************************************)
(* collect_slots as a state machine: the steps of the two adapters, the    *)
(* hand-over between them and the final filter.                            *)
(***************************************************************************)
\* the dates argument: None, an empty list, a list with a repeated date, yesterday
CollectDateInputs == {NoDates, Dates(<<>>), Dates(<<1, 1>>), Dates(<<0>>)}

\* list(dict.fromkeys(dates))
RECURSIVE DedupKeepOrder(_, _)
DedupKeepOrder(list, acc) ==
    IF list = <<>> THEN acc
    ELSE DedupKeepOrder(Tail(list),
             IF \E i \in 1..Len(acc) : acc[i] = Head(list) THEN acc
             ELSE Append(acc, Head(list)))

Min(a, b) == IF a < b THEN a ELSE b
Max(a, b) == IF a > b THEN a ELSE b

\* lines 34-38 of collect_slots and line 109 of eversports.fetch_slots
TargetDates(dates, pages) ==
    LET horizon_days == Max(1, Min(pages * 4, 14))
        given == IF ~dates.given THEN [i \in 1..horizon_days |-> Today + i - 1]
                 ELSE dates.list
    IN  DedupKeepOrder(IF given = <<>> THEN <<Today>> ELSE given, <<>>)

\* the instants datetime.now(timezone) may return at line 57
NowChoices == {At(1, 9, 0), At(1, 11, 0), At(1, 12, 0), At(2, 0, 0), At(2, 10, 0)}

\* mutant of KeepSlot: a slot that ends exactly now is kept
KeepSlotEndingNow(slot, now, sport) == slot.end >= now /\ slot.sport = sport

\* the filter of line 58
KeepSlot(slot, now, sport) == slot.end > now /\ slot.sport = sport

\* the Eversports server during one call of collect_slots: every calendar request
\* gets PageA, or every one gets PageNight, or every one fails
CollectServers == {"plain", "night", "failing"}

ColInit ==
    /\ colPc = "ltm" /\ colDates \in CollectDateInputs /\ colServer \in CollectServers
    /\ colNow = 0 /\ colOut = <<>>

\* ltm.fetch_slots raised inside slots.extend: collect_slots has no handler
ColLtmRaised ==
    /\ colPc = "ltm" /\ ltmPc = "raised"
    /\ colPc' = "raised"
    /\ UNCHANGED <<colDates, colServer, colNow, colOut, ltmVars, evVars>>

\* lines 34-46: the LTM generator is exhausted, eversports.fetch_slots is called
ColStartEversports ==
    /\ colPc = "ltm" /\ ltmPc = "done"
    /\ colPc' = "eversports"
    /\ evPc' = "facility"
    /\ target_dates' = TargetDates(colDates, ltmPages)
    /\ UNCHANGED <<colDates, colServer, colNow, colOut, ltmVars, evF, evD, evS, retry_count, success,
                   broke, slots, seen, errors, initialized_facilities, attemptLog, calTotal,
                   last, offered, gaveUp, visited, disturbed, deviating>>

\* the answers of the Eversports server while collect_slots runs
CollectResponses ==
    CASE colServer = "plain" -> PlainResponses
      [] colServer = "night" -> OkResponses({"PageNight"}, {"FeedEmpty"}, {-1})
      [] OTHER -> {r \in FailResponses : r.kind = "error"}

EvAttemptCollect == EvAttemptWith(CollectResponses, CollectResponses)

\* lines 57-59: now is read, the slots of both adapters are filtered
ColFilter ==
    /\ colPc = "eversports" /\ evPc = "done"
    /\ \E now \in NowChoices :
        /\ colNow' = now
        /\ colOut' = SelectSeq(ltmOut \o slots, LAMBDA slot : KeepSlot(slot, now, "tennis"))
    /\ colPc' = "returned"
    /\ UNCHANGED <<colDates, colServer, ltmVars, evVars>>

\* the LTM sites of the collect_slots runs
CollectSites ==
    {"Plain", "Sizes", "SameCellOnBothSeeds", "WeeksOverlap", "FirstSeedFails",
     "SecondPageFails"}

InitCollect == EvIdle /\ RowIdle /\ LtmInit(CollectSites) /\ ColInit /\ FnIdle

NextCollect ==
    \/ colPc = "ltm" /\ LtmFetchPage /\ UNCHANGED <<evVars, rowVars, colVars, fnVars>>
    \/ colPc = "ltm" /\ LtmLeaveSeed /\ UNCHANGED <<evVars, rowVars, colVars, fnVars>>
    \/ ColLtmRaised /\ UNCHANGED <<rowVars, fnVars>>
    \/ ColStartEversports /\ UNCHANGED <<rowVars, fnVars>>
    \/ colPc = "eversports" /\ EvWarmUp /\ UNCHANGED <<rowVars, ltmVars, colVars, fnVars>>
    \/ colPc = "eversports" /\ EvRetryWarm /\ UNCHANGED <<rowVars, ltmVars, colVars, fnVars>>
    \/ colPc = "eversports" /\ EvAttemptCollect /\ UNCHANGED <<rowVars, ltmVars, colVars, fnVars>>
    \/ colPc = "eversports" /\ EvAdvance /\ UNCHANGED <<rowVars, ltmVars, colVars, fnVars>>
    \/ ColFilter /\ UNCHANGED <<rowVars, fnVars>>

SpecCollect == InitCollect /\ [][NextCollect]_vars

(***************************************************************************)
(* ltm.fetch_slots alone, on every site of the model.                      *)
(***************************************************************************)
InitLtm == EvIdle /\ RowIdle /\ LtmInit(LtmSites) /\ ColIdle /\ FnIdle

NextLtm ==
    \/ LtmFetchPage /\ UNCHANGED <<evVars, rowVars, colVars, fnVars>>
    \/ LtmLeaveSeed /\ UNCHANGED <<evVars, rowVars, colVars, fnVars>>

SpecLtm == InitLtm /\ [][NextLtm]_vars

(***************************************************************************)
(* app.determine_pages: the filter dates are drawn in the initial state,   *)
(* one action computes the page budget.                                    *)
(***************************************************************************)
\* A date string: the day it names and how it is written. "padded" is
\* 2025-06-01, "unpadded" 2025-6-1, "slashes" 2025/06/01, "word" no date at all.
DateText(day, form) == [day |-> day, form |-> form]

\* datetime.strptime(text, "%Y-%m-%d").date(): %m and %d take one or two digits;
\* any other text raises ValueError
strptime_Ymd(text) ==
    IF text.form \in {"padded", "unpadded"} THEN IntResult(text.day) ELSE RaiseResult

\* strftime("%Y-%m-%d") of a date
strftime_Ymd(day) == DateText(day, "padded")

\* mutant of OffsetsFromToday: a past date counts with its distance from today
RECURSIVE OffsetsFromTodayAbsolute(_, _)
OffsetsFromTodayAbsolute(list, today) ==
    IF list = <<>> THEN <<>>
    ELSE LET target == strptime_Ymd(Head(list))
             diff == target.v - today
             rest == OffsetsFromTodayAbsolute(Tail(list), today)
         IN  IF target.tag = "raise" THEN rest
             ELSE <<IF diff >= 0 THEN diff ELSE 0 - diff>> \o rest

\* lines 46-54: diffs, the offsets of the dates that parse and are not past
RECURSIVE OffsetsFromToday(_, _)
OffsetsFromToday(list, today) ==
    IF list = <<>> THEN <<>>
    ELSE LET target == strptime_Ymd(Head(list))
             diff == target.v - today
             rest == OffsetsFromToday(Tail(list), today)
         IN  IF target.tag = "raise" THEN rest
             ELSE IF diff >= 0 THEN <<diff>> \o rest ELSE rest

\* max() of a non-empty list of integers
RECURSIVE MaxOf(_)
MaxOf(list) ==
    IF Len(list) = 1 THEN list[1] ELSE Max(list[1], MaxOf(Tail(list)))

\* mutant of determine_pages: the quotient is rounded up instead
determine_pagesRoundedUp(filter_dates, today) ==
    IF ~filter_dates.given \/ filter_dates.list = <<>> THEN 1
    ELSE LET diffs == OffsetsFromToday(filter_dates.list, today)
         IN  IF diffs = <<>> THEN 1
             ELSE Max(1, (MaxOf(diffs) + 3) \div 4)

\* app.determine_pages; today is datetime.now(tz).date()
determine_pages(filter_dates, today) ==
    IF ~filter_dates.given \/ filter_dates.list = <<>> THEN 1
    ELSE LET diffs == OffsetsFromToday(filter_dates.list, today)
         IN  IF diffs = <<>> THEN 1
             ELSE Max(1, (MaxOf(diffs) \div 4) + 1)

\* the furthest date of the inputs lies MaxOffset days ahead
MaxOffset == 9

\* the date strings of the inputs: every day from two days ago to MaxOffset days
\* ahead in the padded form, a day further back, some days in other forms
FilterTexts ==
    {DateText(Today + k, "padded") : k \in (0 - 2)..MaxOffset}
        \cup {DateText(Today - 5, "padded"), DateText(Today + 4, "unpadded"),
              DateText(Today + MaxOffset, "slashes"), DateText(Today, "word")}

FilterDateInputs ==
    {NoDates, Dates(<<>>)} \cup {Dates(<<a>>) : a \in FilterTexts}
        \cup {Dates(<<a, b>>) : a \in FilterTexts, b \in FilterTexts}

PagesInit ==
    fnPc = "input" /\ fnIn \in [filter_dates : FilterDateInputs, today : {Today}]
        /\ fnOut = <<>>

DeterminePages ==
    /\ fnPc = "input"
    /\ fnOut' = determine_pages(fnIn.filter_dates, fnIn.today)
    /\ fnPc' = "returned"
    /\ UNCHANGED fnIn

InitPages == EvIdle /\ RowIdle /\ LtmIdle /\ ColIdle /\ PagesInit

NextPages == DeterminePages /\ UNCHANGED <<evVars, rowVars, ltmVars, colVars>>

SpecPages == InitPages /\ [][NextPages]_vars

(***************************************************************************)
(* One div.slot element in a court column of an LTM page: the element is   *)
(* drawn in the initial state, one action builds the slots of the column.  *)
(***************************************************************************)
SlotClassLists ==
    { <<"slot", "av", "price1">>, <<"slot", "av">>, <<"av", "slot", "price">>,
      <<"slot", "bk", "price1">>, <<"slot">>, <<>> }

\* data-begin: absent, empty, an hour of day 1, surrounded by blanks, negative,
\* zero, no number
BeginTexts ==
    { None, <<>>, NumText(At(1, 10, 0)), <<" ">> \o NumText(At(1, 11, 0)) \o <<" ">>,
      <<"-">> \o NumText(At(1, 0, 0)), <<"0">>, <<"a">>, <<"1", ".", "5">> }

\* data-size: absent, empty, the spans up to MaxSpan, zero, negative, no integer
MaxSpan == 3

SizeTexts ==
    { None, <<>>, <<"0">>, <<"-", "2">>, <<"x">>, <<"1", ".", "5">>, <<" ", "2">> }
        \cup {NumText(n) : n \in 1..MaxSpan}

SlotCellInputs == {LtmCell(c, b, sz) : c \in SlotClassLists, b \in BeginTexts, sz \in SizeTexts}

CellInit == fnPc = "input" /\ fnIn \in SlotCellInputs /\ fnOut = <<>>

\* lines 148-161 of _parse_day_slots on a column that holds the one element
BuildColumn ==
    /\ fnPc = "input"
    /\ fnOut' = ColumnSlots(<<fnIn>>, <<"k", "1">>, <<"P", "l", "a", "t", "z", " ", "1">>,
                            <<"c", "1">>, "LTM", <<<<"price1", 1200>>>>)
    /\ fnPc' = "returned"
    /\ UNCHANGED fnIn

InitCell == EvIdle /\ RowIdle /\ LtmIdle /\ ColIdle /\ CellInit

NextCell == BuildColumn /\ UNCHANGED <<evVars, rowVars, ltmVars, colVars>>

SpecCell == InitCell /\ [][NextCell]_vars

(***************************************************************************)
(* The slot list on its way to presentation: the date filter and the sort  *)
(* of app.load_slots and of cli.main. The list the adapters returned and   *)
(* the date filter are drawn in the initial state.                         *)
(***************************************************************************)
\* ord() of the characters the labels and ids of the inputs use
CodePoint ==
    (" " :> 32) @@ ("0" :> 48) @@ ("1" :> 49) @@ ("2" :> 50) @@ ("3" :> 51)
        @@ ("4" :> 52) @@ ("5" :> 53) @@ ("6" :> 54) @@ ("7" :> 55) @@ ("8" :> 56)
        @@ ("9" :> 57) @@ ("C" :> 67) @@ ("P" :> 80) @@ ("a" :> 97) @@ ("c" :> 99)
        @@ ("k" :> 107) @@ ("l" :> 108) @@ ("p" :> 112) @@ ("t" :> 116)
        @@ ("u" :> 117) @@ ("z" :> 122)

\* str.__lt__: the first differing character decides, a proper prefix is less
RECURSIVE StrLess(_, _)
StrLess(a, b) ==
    IF b = <<>> THEN FALSE
    ELSE IF a = <<>> THEN TRUE
    ELSE IF Head(a) = Head(b) THEN StrLess(Tail(a), Tail(b))
    ELSE CodePoint[Head(a)] < CodePoint[Head(b)]

\* mutant of SortKey: the start alone
SortKeyStartOnly(slot) == <<slot.start, <<>>, <<>>, <<>>>>

\* the key of app.py line 103 and cli.py line 533
SortKey(slot) == <<slot.start, slot.court_label, slot.calendar_id, slot.court_id>>

\* tuple.__lt__ on two keys: the first differing component decides
KeyLess(a, b) ==
    IF a[1] # b[1] THEN a[1] < b[1]
    ELSE IF a[2] # b[2] THEN StrLess(a[2], b[2])
    ELSE IF a[3] # b[3] THEN StrLess(a[3], b[3])
    ELSE StrLess(a[4], b[4])

\* list.sort(key = ...) is stable: a slot goes behind the slots whose key is not
\* greater than its own
RECURSIVE InsertByKey(_, _)
InsertByKey(sorted, slot) ==
    IF sorted = <<>> THEN <<slot>>
    ELSE IF KeyLess(SortKey(slot), SortKey(Head(sorted))) THEN <<slot>> \o sorted
    ELSE <<Head(sorted)>> \o InsertByKey(Tail(sorted), slot)

RECURSIVE SortFrom(_, _)
SortFrom(list, sorted) ==
    IF list = <<>> THEN sorted ELSE SortFrom(Tail(list), InsertByKey(sorted, Head(list)))

sort(list) == SortFrom(list, <<>>)

\* datetime.date() of an instant
DateOf(instant) == instant \div DaySeconds

\* mutant of AppKeeps: the date on which the slot ends is looked up
AppKeepsByEnd(slot, date_strings) == strftime_Ymd(DateOf(slot.end)) \in date_strings

\* app.py line 100: slot.start.strftime("%Y-%m-%d") in target_dates
AppKeeps(slot, date_strings) == strftime_Ymd(DateOf(slot.start)) \in date_strings

\* app.py lines 95-101: the date filter of load_slots; filter_dates holds strings
AppDateFilter(list, filter_dates) ==
    IF ~filter_dates.given \/ filter_dates.list = <<>> THEN list
    ELSE LET date_strings == {filter_dates.list[i] : i \in 1..Len(filter_dates.list)}
         IN  SelectSeq(list, LAMBDA slot : AppKeeps(slot, date_strings))

\* --filter-date was not given, or given as the empty string
NoDateText == DateText(0, "absent")

\* cli.py lines 530-531: the date filter of main; filter_date is a date or None
CliDateFilter(list, filter_date) ==
    IF filter_date.tag = "none" THEN list
    ELSE SelectSeq(list, LAMBDA slot : DateOf(slot.start) = filter_date.v)

ShownSlot(start, court_label, calendar_id, court_id) ==
    [ none |-> FALSE, calendar_id |-> calendar_id, calendar_label |-> "LTM",
      court_id |-> court_id, court_label |-> court_label,
      start |-> start, end |-> start + 60 * 60, duration_minutes |-> 60,
      price_eur |-> -1, price_code |-> "", provider |-> PROVIDER_LTM, sport |-> "tennis" ]

\* slots that tie on the start, on start and label, on start, label and calendar;
\* labels of which one is a prefix of the other or differs in case; a later
\* hour, an hour that ends at midnight, a slot of the next day
ShownSlots ==
    { ShownSlot(At(1, 10, 0), <<"P", "1">>, <<"c", "1">>, <<"k", "1">>),
      ShownSlot(At(1, 10, 0), <<"P", "1">>, <<"c", "1">>, <<"k", "2">>),
      ShownSlot(At(1, 10, 0), <<"P", "1">>, <<"c", "2">>, <<"k", "1">>),
      ShownSlot(At(1, 10, 0), <<"P", "1", "0">>, <<"c", "1">>, <<"k", "1">>),
      ShownSlot(At(1, 10, 0), <<"P", "2">>, <<"c", "1">>, <<"k", "1">>),
      ShownSlot(At(1, 10, 0), <<"p", "1">>, <<"c", "1">>, <<"k", "1">>),
      ShownSlot(At(1, 23, 0), <<"P", "1">>, <<"c", "1">>, <<"k", "1">>),
      ShownSlot(At(2, 10, 0), <<"P", "1">>, <<"c", "1">>, <<"k", "1">>) }

\* the adapters returned at most MaxShown slots
MaxShown == 3

RECURSIVE ListsUpTo(_, _)
ListsUpTo(S, n) ==
    IF n = 0 THEN {<<>>}
    ELSE LET shorter == ListsUpTo(S, n - 1)
         IN  shorter \cup {Append(l, x) : l \in shorter, x \in S}

\* the date filter as the app gets it (strings) and as the CLI gets it (one string)
ShownFilters ==
    { [dates |-> NoDates, date |-> NoDateText],
      [dates |-> Dates(<<DateText(1, "padded")>>), date |-> DateText(1, "padded")],
      [dates |-> Dates(<<DateText(2, "padded")>>), date |-> DateText(2, "padded")],
      [dates |-> Dates(<<DateText(1, "unpadded"), DateText(2, "padded")>>),
       date |-> DateText(2, "unpadded")],
      [dates |-> Dates(<<DateText(2, "word")>>), date |-> DateText(2, "word")] }

ShownInit ==
    /\ fnPc = "input"
    /\ fnIn \in [slots : ListsUpTo(ShownSlots, MaxShown), filter : ShownFilters]
    /\ fnOut = <<>>

\* app.py lines 95-103: load_slots after collect_slots returned fnIn.slots
AppPresent ==
    /\ fnPc = "input"
    /\ fnOut' = [by |-> "app", code |-> 0,
                 slots |-> sort(AppDateFilter(fnIn.slots, fnIn.filter.dates))]
    /\ fnPc' = "returned"
    /\ UNCHANGED fnIn

\* cli.py lines 507-533: main around list(iter_pages(...)), which gave fnIn.slots
CliPresent ==
    /\ fnPc = "input"
    /\ LET text == fnIn.filter.date
           filter_date == IF text.form = "absent" THEN NoneResult ELSE strptime_Ymd(text)
       IN  fnOut' = IF filter_date.tag = "raise"
                    THEN [by |-> "cli", code |-> 2, slots |-> <<>>]
                    ELSE [by |-> "cli", code |-> 0,
                          slots |-> sort(CliDateFilter(fnIn.slots, filter_date))]
    /\ fnPc' = "returned"
    /\ UNCHANGED fnIn

InitShown == EvIdle /\ RowIdle /\ LtmIdle /\ ColIdle /\ ShownInit

NextShown ==
    \/ AppPresent /\ UNCHANGED <<evVars, rowVars, ltmVars, colVars>>
    \/ CliPresent /\ UNCHANGED <<evVars, rowVars, ltmVars, colVars>>

SpecShown == InitShown /\ [][NextShown]_vars

(***************************************************************************)
(* A whole run: cli.main (validation, the crawl of iter_pages, filter,     *)
(* sort, exit code) and app.load_slots (time zone, page budget, dates,     *)
(* collect_slots, filter, sort).  The arguments, the LTM site and the      *)
(* Eversports server are drawn in the initial state.                       *)
(***************************************************************************)
RunSites == {"Plain", "FirstSeedFails", "SecondPageFails"}

\* tz_ok: ZoneInfo knows the timezone name.  pages and date are --pages and
\* --filter-date of the CLI, dates is filter_dates of load_slots.
RunArgs(by, tz_ok, pages, date, dates) ==
    [by |-> by, tz_ok |-> tz_ok, pages |-> pages, date |-> date, dates |-> dates]

RunInputs ==
    {RunArgs("cli", tz, n, d, NoDates) :
        tz \in BOOLEAN, n \in 0..MaxPages,
        d \in {NoDateText, DateText(Today, "padded"), DateText(Today, "word")}}
    \cup
    {RunArgs("app", tz, 1, NoDateText, ds) :
        tz \in BOOLEAN,
        ds \in {NoDates, Dates(<<DateText(Today, "padded")>>), Dates(<<DateText(Today, "word")>>),
                Dates(<<DateText(Today + 4, "padded"), DateText(Today, "slashes")>>)}}

RunInit ==
    /\ fnPc = "input" /\ fnIn \in RunInputs /\ fnOut = <<>>
    /\ ltmPc = "idle" /\ ltmSite \in RunSites /\ ltmPages = 1
    /\ ltmSeed = 1 /\ page_index = 0 /\ ltmUrl = SEED_URLS[1] /\ ltmStop = FALSE
    /\ seen_urls = {} /\ price_lookup = <<>>
    /\ color_price_by_seed = [i \in 1..Len(SEED_URLS) |-> <<>>]
    /\ ltmOut = <<>> /\ ltmFetched = <<>>
    /\ colPc = "idle" /\ colDates = NoDates /\ colServer \in {"plain", "failing"}
    /\ colNow = 0 /\ colOut = <<>>

\* cli.py lines 510-515: filter_date, None without --filter-date
CliFilterDate(text) ==
    IF text.form = "absent" THEN NoneResult ELSE strptime_Ymd(text)

\* cli.py lines 491-528: the checks of main, then the call of iter_pages
CliStart ==
    /\ fnPc = "input" /\ fnIn.by = "cli"
    /\ IF fnIn.pages < 1 \/ ~fnIn.tz_ok \/ CliFilterDate(fnIn.date).tag = "raise"
       THEN /\ fnPc' = "returned"
            /\ fnOut' = [by |-> "cli", code |-> 2, slots |-> <<>>]
            /\ UNCHANGED <<ltmPc, ltmPages>>
       ELSE /\ fnPc' = "crawl"
            /\ ltmPc' = "loop" /\ ltmPages' = fnIn.pages
            /\ UNCHANGED fnOut
    /\ UNCHANGED <<fnIn, ltmSite, ltmSeed, page_index, ltmUrl, ltmStop, seen_urls,
                   price_lookup, color_price_by_seed, ltmOut, ltmFetched>>

\* mutant of OnRequestException: what was parsed before the failure is printed
OnRequestExceptionPartial(parsed) == [by |-> "cli", code |-> 1, slots |-> parsed]

\* cli.py lines 526-528: the list under construction is lost, main returns 1
OnRequestException(parsed) == [by |-> "cli", code |-> 1, slots |-> <<>>]

\* iter_pages raised: fetch_html re-raises at cli.py lines 300-305
CliFail ==
    /\ fnPc = "crawl" /\ ltmPc = "raised"
    /\ fnOut' = OnRequestException(ltmOut)
    /\ fnPc' = "returned"
    /\ UNCHANGED fnIn

\* cli.py lines 530-543: the generator is exhausted; filter, sort, print, return 0
CliFinish ==
    /\ fnPc = "crawl" /\ ltmPc = "done"
    /\ fnOut' = [by |-> "cli", code |-> 0,
                 slots |-> sort(CliDateFilter(ltmOut, CliFilterDate(fnIn.date)))]
    /\ fnPc' = "returned"
    /\ UNCHANGED fnIn

\* app.py lines 77-84: target_dates, the filter dates that parse, None without
\* filter dates
RECURSIVE ParsedDates(_)
ParsedDates(list) ==
    IF list = <<>> THEN <<>>
    ELSE LET target == strptime_Ymd(Head(list))
         IN  (IF target.tag = "raise" THEN <<>> ELSE <<target.v>>) \o ParsedDates(Tail(list))

AppTargetDates(filter_dates) ==
    IF ~filter_dates.given \/ filter_dates.list = <<>> THEN NoDates
    ELSE Dates(ParsedDates(filter_dates.list))

\* app.py lines 72-93: ZoneInfo(timezone_name) raises, or collect_slots is called
AppStart ==
    /\ fnPc = "input" /\ fnIn.by = "app"
    /\ IF ~fnIn.tz_ok
       THEN /\ fnPc' = "raised"
            /\ UNCHANGED <<ltmPc, ltmPages, colPc, colDates>>
       ELSE /\ fnPc' = "collect"
            /\ ltmPc' = "loop" /\ ltmPages' = determine_pages(fnIn.dates, Today)
            /\ colPc' = "ltm" /\ colDates' = AppTargetDates(fnIn.dates)
    /\ UNCHANGED <<fnIn, fnOut, ltmSite, ltmSeed, page_index, ltmUrl, ltmStop, seen_urls,
                   price_lookup, color_price_by_seed, ltmOut, ltmFetched, colServer,
                   colNow, colOut>>

\* the exception of the LTM crawl leaves collect_slots and load_slots
AppRaised ==
    /\ fnPc = "collect" /\ colPc = "raised"
    /\ fnPc' = "raised"
    /\ UNCHANGED <<fnIn, fnOut>>

\* app.py lines 95-103 on the list collect_slots returned
AppFinish ==
    /\ fnPc = "collect" /\ colPc = "returned"
    /\ fnOut' = [by |-> "app", code |-> 0,
                 slots |-> sort(AppDateFilter(colOut, fnIn.dates))]
    /\ fnPc' = "returned"
    /\ UNCHANGED fnIn

InitRun == EvIdle /\ RowIdle /\ RunInit

NextRun ==
    \/ CliStart /\ UNCHANGED <<evVars, rowVars, colVars>>
    \/ fnPc = "crawl" /\ LtmFetchPage /\ UNCHANGED <<evVars, rowVars, colVars, fnVars>>
    \/ fnPc = "crawl" /\ LtmLeaveSeed /\ UNCHANGED <<evVars, rowVars, colVars, fnVars>>
    \/ CliFail /\ UNCHANGED <<evVars, rowVars, ltmVars, colVars>>
    \/ CliFinish /\ UNCHANGED <<evVars, rowVars, ltmVars, colVars>>
    \/ AppStart /\ UNCHANGED <<evVars, rowVars>>
    \/ colPc = "ltm" /\ LtmFetchPage /\ UNCHANGED <<evVars, rowVars, colVars, fnVars>>
    \/ colPc = "ltm" /\ LtmLeaveSeed /\ UNCHANGED <<evVars, rowVars, colVars, fnVars>>
    \/ ColLtmRaised /\ UNCHANGED <<rowVars, fnVars>>
    \/ ColStartEversports /\ UNCHANGED <<rowVars, fnVars>>
    \/ colPc = "eversports" /\ EvWarmUp /\ UNCHANGED <<rowVars, ltmVars, colVars, fnVars>>
    \/ colPc = "eversports" /\ EvRetryWarm /\ UNCHANGED <<rowVars, ltmVars, colVars, fnVars>>
    \/ colPc = "eversports" /\ EvAttemptCollect /\ UNCHANGED <<rowVars, ltmVars, colVars, fnVars>>
    \/ colPc = "eversports" /\ EvAdvance /\ UNCHANGED <<rowVars, ltmVars, colVars, fnVars>>
    \/ ColFilter /\ UNCHANGED <<rowVars, fnVars>>
    \/ AppRaised /\ UNCHANGED <<evVars, rowVars, ltmVars, colVars>>
    \/ AppFinish /\ UNCHANGED <<evVars, rowVars, ltmVars, colVars>>

SpecRun == InitRun /\ [][NextRun]_vars

(***************************************************************************)
(* Properties of the blocked-slot veto.                                    *)
(***************************************************************************)
\* the slot [start, end) overlaps the 30 minutes that begin at minute m of day d
OverlapsBlock(slot, d, m) ==
    LET b == d * DaySeconds + m * 60
    IN  slot.start < b + 30 * 60 /\ b < slot.end

BlockDay(item) == item[1].n

\* C4: no emitted slot overlaps a 30-minute block listed as blocked for its court
\* on its date, whatever the start and end times of the candidate.
C4_BlockedVeto ==
    rowPc = "parsed" =>
        \A i \in 1..Len(rowOut) : \A b \in rowIn.blocked :
            (b[3] = rowOut[i].court_id /\ BlockDay(b) = rowIn.day)
                => ~OverlapsBlock(rowOut[i], BlockDay(b), b[2])

(***************************************************************************)
(* Properties of eversports.fetch_slots.                                   *)
(***************************************************************************)
NoDuplicateKeys(list) ==
    \A i, j \in 1..Len(list) : i < j => SlotKey(list[i]) # SlotKey(list[j])

\* the loop of the current combination has been left
LoopLeft == evPc = "attempt" /\ (broke \/ ~LoopCondition)

AllCombos ==
    {<<f, d, sp>> \in (1..Len(FACILITIES)) \X (1..Len(target_dates)) \X (1..2) :
        sp <= Len(FACILITIES[f].sports)}

\* the combinations the loops have reached so far
CombosReached ==
    {c \in AllCombos :
        \/ evPc = "done"
        \/ c[1] < evF
        \/ c[1] = evF /\ evPc # "facility"
           /\ (c[2] < evD \/ (c[2] = evD /\ c[3] <= evS))}

\* C2: the list built by eversports.fetch_slots never holds two slots with the
\* same (calendar_id, court_id, start): the first occurrence is kept, later ones
\* (of the same page, of another combination, of a retried attempt) are dropped.
C2_NoDuplicates == NoDuplicateKeys(slots) /\ seen = KeysOf(slots)

\* C2 witness: in the first combination an attempt failed after one slot had been
\* appended, and the retry, whose page yields that slot again, succeeded without
\* appending it a second time.
C2_Witness ==
    /\ Combo = <<1, 1, 1>> /\ success /\ attemptLog = <<"error", "ok">>
    /\ last.before = 1 /\ Len(last.yielded) = 2
    /\ SlotKey(slots[1]) = SlotKey(last.yielded[1])
    /\ Len(slots) = 2

\* C5: when the calendar page arrived and the blocked-slot feed failed or was
\* malformed, the iteration succeeds and every candidate of the page is emitted
\* (nothing is blocked).
C5_FeedFailOpen ==
    (last.op = "attempt" /\ last.page # "none" /\ last.cut = -1
        /\ last.feed \in MalformedFeeds)
    => /\ success
       /\ KeysOf(_parse_calendar_html(PageNamed(last.page), CurDate, {}, CurFacility,
                                      CurSport)) \subseteq KeysOf(slots)

\* C7: no combination gets more than max_retries + 1 = 3 calendar requests, and the
\* call makes at most 3 requests per combination reached, so at most
\* 3 x |facilities| x |dates| x |sports| in all.
C7_RetryBound ==
    /\ Len(attemptLog) <= max_retries + 1
    /\ calTotal <= (max_retries + 1) * Cardinality(CombosReached)
    /\ \A g \in gaveUp : g[2] <= max_retries + 1

\* C7 witness: a combination whose three requests all failed; the loop is left.
C7_Witness == LoopLeft /\ ~success /\ ~broke /\ Len(attemptLog) = max_retries + 1

\* C8: if every calendar request of a combination fails with an anti-bot challenge
\* or an HTTP 403, exactly three requests are made for it.
C8_ChallengeAnd403Retried ==
    (LoopLeft /\ \A i \in 1..Len(attemptLog) : attemptLog[i] \in {"challenge", "http403"})
    => Len(attemptLog) = max_retries + 1

\* C9: a calendar request that fails with an HTTP error status other than 403 is
\* the last request of its combination: the loop is left at once, and when it was
\* the first request, exactly one request was made.
C9_OtherHttpNotRetried ==
    \A i \in 1..Len(attemptLog) :
        attemptLog[i] = "http_other" => i = Len(attemptLog) /\ broke /\ LoopLeft

\* C9 witness: the first request of a combination failed with HTTP 500.
C9_Witness == attemptLog = <<"http_other">> /\ last.status = 500 /\ broke

\* C10: at the return of fetch_slots every combination has had its calendar
\* request, whatever happened to the others, and every slot the parser yielded
\* on a successful attempt is in the returned list.
C10_NoHardAbort ==
    evPc = "done" => visited = AllCombos /\ offered \subseteq KeysOf(slots)

\* C10 witness: the call returned; the second facility used up its three attempts
\* and the list holds slots of the first and of the third facility.
C10_Witness ==
    /\ evPc = "done"
    /\ \E g \in gaveUp : g[1][1] = 2 /\ g[2] = max_retries + 1
    /\ \E i, j \in 1..Len(slots) :
          slots[i].calendar_id = FACILITIES[1].id /\ slots[j].calendar_id = FACILITIES[3].id

(***************************************************************************)
(* Properties of collect_slots and of ltm.fetch_slots.                     *)
(***************************************************************************)
\* C1: every slot returned by collect_slots ends after now (read once, after the
\* adapters) and ends after it starts.
C1_ReturnedSlotsValid ==
    colPc = "returned" =>
        \A i \in 1..Len(colOut) : colOut[i].end > colNow /\ colOut[i].end > colOut[i].start

\* C1 witness: a call returned slots of both adapters, one of them the hour that
\* ends at midnight, after dropping a slot that ended exactly at now.
C1_Witness ==
    /\ colPc = "returned"
    /\ \E i, j \in 1..Len(colOut) :
          /\ colOut[i].provider = "ltm"
          /\ colOut[j].provider = "eversports" /\ colOut[j].end = At(2, 0, 0)
    /\ \E k \in 1..Len(ltmOut) : ltmOut[k].end = colNow

\* C3: the slots yielded by ltm.fetch_slots, and the list collect_slots returns,
\* hold no two slots with the same (calendar_id, court_id, start).
C3_LtmNoDuplicates ==
    /\ ltmPc = "done" => NoDuplicateKeys(ltmOut)
    /\ colPc = "returned" => NoDuplicateKeys(colOut)

\* C6: when the LTM crawl fails with a transport error, collect_slots still runs
\* the Eversports adapter and returns its slots.
C6_ProviderIsolation ==
    (ltmPc = "raised" /\ colPc # "ltm")
        => colPc \in {"eversports", "returned"}

(***************************************************************************)
(* Properties of the LTM crawl: prices, cycle guard, page budget.          *)
(***************************************************************************)
\* C11: once a price code has a value in price_lookup, no later page of the crawl
\* changes that value, also when the later page states another value for the code
\* in its price box and also when the code got its value through its color.
C11_FirstResolvedWins ==
    [][\A code \in PriceCodes :
          DictHas(price_lookup, code)
              => /\ DictHas(price_lookup', code)
                 /\ DictGet(price_lookup', code) = DictGet(price_lookup, code)]_vars

\* the page a logged fetch returned
PageFetched(entry) == fetch_html(ltmSite, entry[2]).page

\* C12: a page that states no value for a code that already has one leaves the
\* value of that code as it is, whatever color the page binds to the code.
C12_RecolorKeepsValue ==
    [][\A code \in PriceCodes :
          (DictHas(price_lookup, code)
              /\ ~DictHas(parse_price_map(fetch_html(ltmSite, ltmUrl).page), code))
              => /\ DictHas(price_lookup', code)
                 /\ DictGet(price_lookup', code) = DictGet(price_lookup, code)]_vars

\* C12 witness: price1 was 12.00 and red, price2 15.00 and blue on the first page;
\* the second page has no price box and shows price1 in blue; price1 is still 12.00.
C12_Witness ==
    /\ ltmSite = "Recolored" /\ Len(ltmFetched) >= 2 /\ ltmFetched[2][2] = W2
    /\ parse_price_map(PageFetched(ltmFetched[2])) = <<>>
    /\ DictGet(parse_price_colors(PageFetched(ltmFetched[2])), "price1") = "blue"
    /\ DictGet(color_price_by_seed[1], "blue") = 1500
    /\ DictGet(price_lookup, "price1") = 1200

FetchOk(entry) == entry[3] # "raise"

\* the absolute URL of the next link of the page a logged fetch returned
NextLinkOf(entry) == urljoin(BASE_URL, extract_next_href(PageFetched(entry)))

\* the resolved URLs of the first i fetches
ResolvedUpTo(i) == {ltmFetched[j][3] : j \in 1..i}

LastOfItsSeed(i) ==
    \A k \in 1..Len(ltmFetched) : k > i => ltmFetched[k][1] # ltmFetched[i][1]

\* C13: a URL already visited in this crawl is never requested again, and a page
\* whose next link resolves to a visited URL is the last page fetched for its
\* seed, whatever the page budget: no fetch follows the first visit of that URL
\* through the link.
C13_CycleGuard ==
    \A i \in 1..Len(ltmFetched) :
        /\ ltmFetched[i][2] \notin ResolvedUpTo(i - 1)
        /\ (FetchOk(ltmFetched[i]) /\ NextLinkOf(ltmFetched[i]) \in ResolvedUpTo(i))
               => LastOfItsSeed(i)

\* C13 witness: with the largest page budget, the first seed's page links to
\* itself; the crawl ended after one fetch per seed.
C13_Witness ==
    /\ ltmSite = "SelfLoop" /\ ltmPages = MaxPages /\ ltmPc = "done"
    /\ NextLinkOf(ltmFetched[1]) = U1
    /\ ltmFetched = << <<1, U1, U1>>, <<2, U2, U2>> >>

FetchesOfSeed(sd) == Cardinality({i \in 1..Len(ltmFetched) : ltmFetched[i][1] = sd})

\* C14: for each seed at most `pages` pages are fetched, a page without next link
\* is the last of its seed, and the crawl makes at most |seeds| x pages fetches.
C14_PageBudget ==
    /\ \A sd \in 1..Len(SEED_URLS) : FetchesOfSeed(sd) <= ltmPages
    /\ Len(ltmFetched) <= Len(SEED_URLS) * ltmPages
    /\ \A i \in 1..Len(ltmFetched) :
          (FetchOk(ltmFetched[i]) /\ extract_next_href(PageFetched(ltmFetched[i])) = "<None>")
              => LastOfItsSeed(i)

\* C14 witness: on the site whose next links never end, the crawl with the largest
\* budget ended after exactly |seeds| x pages fetches.
C14_Witness ==
    /\ ltmSite = "Endless" /\ ltmPages = MaxPages /\ ltmPc = "done"
    /\ Len(ltmFetched) = Len(SEED_URLS) * ltmPages

(***************************************************************************)
(* Properties of app.determine_pages.                                      *)
(***************************************************************************)
\* the offsets from today of the filter dates that parse and are not past
OffsetsAhead ==
    {strptime_Ymd(fnIn.filter_dates.list[i]).v - fnIn.today :
        i \in {j \in 1..Len(fnIn.filter_dates.list) :
                  /\ strptime_Ymd(fnIn.filter_dates.list[j]).tag = "int"
                  /\ strptime_Ymd(fnIn.filter_dates.list[j]).v >= fnIn.today}}

Furthest == CHOOSE d \in OffsetsAhead : \A e \in OffsetsAhead : e <= d

\* the quotient n / 4 rounded up, for n >= 0
QuarterRoundedUp(n) == IF n % 4 = 0 THEN n \div 4 ELSE n \div 4 + 1

\* C15 as stated: the page budget is the furthest non-negative offset divided by
\* 4 and rounded up, at least 1; it is 1 without explicit dates.
C15_BudgetRoundedUp ==
    fnPc = "returned" =>
        IF OffsetsAhead = {} THEN fnOut = 1
        ELSE fnOut = Max(1, QuarterRoundedUp(Furthest))

\* C15 as amended: the page budget is the furthest non-negative offset divided by
\* 4 and rounded down, plus 1; it is 1 without explicit dates.
C15_BudgetRoundedDownPlusOne ==
    fnPc = "returned" =>
        IF OffsetsAhead = {} THEN fnOut = 1
        ELSE fnOut = (Furthest \div 4) + 1

\* C15 witness: the furthest date lies 4 or 8 days ahead, where rounding up and
\* rounding down plus 1 differ.
C15_Witness ==
    /\ fnPc = "returned" /\ OffsetsAhead # {}
    /\ Furthest % 4 = 0 /\ Furthest > 0
    /\ fnOut = QuarterRoundedUp(Furthest) + 1

\* the filter dates without the strings that do not parse and without past dates
NeitherPastNorUnparsable ==
    Dates(SelectSeq(fnIn.filter_dates.list,
                    LAMBDA t : strptime_Ymd(t).tag = "int" /\ strptime_Ymd(t).v >= fnIn.today))

\* C16: the budget is the least number of 4-day pages that reaches the furthest
\* date that is today or later (4 x budget > d >= 4 x (budget - 1)), 3 for dates
\* 5 and 9 days ahead; past dates and strings that are no dates do not change it,
\* and it is 1 when no date is today or later.
C16_BudgetCoversFurthest ==
    fnPc = "returned" =>
        /\ OffsetsAhead # {} => 4 * fnOut > Furthest /\ 4 * (fnOut - 1) <= Furthest
        /\ OffsetsAhead = {5, 9} => fnOut = 3
        /\ OffsetsAhead = {} => fnOut = 1
        /\ (fnIn.filter_dates.given /\ OffsetsAhead # {})
              => fnOut = determine_pages(NeitherPastNorUnparsable, fnIn.today)

\* C16 witness: dates 5 and 9 days ahead give 3 pages.
C16_Witness ==
    /\ fnPc = "returned" /\ fnOut = 3
    /\ fnIn.filter_dates = Dates(<<DateText(fnIn.today + 5, "padded"),
                                    DateText(fnIn.today + 9, "padded")>>)

(***************************************************************************)
(* Properties of ltm._build_slot.                                          *)
(***************************************************************************)
HasClass(cell, name) == \E i \in 1..Len(cell.classes) : cell.classes[i] = name

\* the span the claim assigns to a data-size: n when it is an integer above 1,
\* else 1, also when it is absent or no integer
SpanOf(size) ==
    IF size = None \/ PyInt(size).tag = "raise" THEN 1 ELSE Max(PyInt(size).v, 1)

\* C17: an element with the class "av" and an integer data-begin t yields exactly
\* one slot, with start = t, end = start + max(n, 1) hours and duration_minutes =
\* 60 x max(n, 1), n being the data-size and 1 when that is absent or no integer;
\* an element without the class "av" yields none.
C17_LtmSlotConstruction ==
    fnPc = "returned" =>
        /\ ~HasClass(fnIn, "av") => fnOut = <<>>
        /\ (HasClass(fnIn, "av") /\ fnIn.begin # None /\ PyInt(fnIn.begin).tag = "int")
              => /\ Len(fnOut) = 1
                 /\ fnOut[1].start = PyInt(fnIn.begin).v
                 /\ fnOut[1].end = fnOut[1].start + SpanOf(fnIn.size) * 60 * 60
                 /\ fnOut[1].duration_minutes = 60 * SpanOf(fnIn.size)

\* C17 witness: an available element with data-size 2 (two hours), one with
\* data-size 0, -2 or none (one hour).
C17_Witness ==
    /\ fnPc = "returned" /\ Len(fnOut) = 1 /\ HasClass(fnIn, "av")
    /\ fnIn.size \in {<<"0">>, <<"-", "2">>, None, <<"x">>}
    /\ fnOut[1].start = At(1, 10, 0) /\ fnOut[1].end = At(1, 11, 0)
    /\ fnOut[1].duration_minutes = 60

(***************************************************************************)
(* Properties of the tooltip veto.                                         *)
(***************************************************************************)
\* the instants at which the slot of a cell of day d starts and ends
CellTimes(cell, d) ==
    LET start_dt == d * DaySeconds + strptime_HM(cell.start).v * 60
        end_0 == d * DaySeconds + strptime_HM(cell.end).v * 60
    IN  <<start_dt, IF end_0 <= start_dt THEN end_0 + DaySeconds ELSE end_0>>

InOrder(a, b) ==
    \/ a.start < b.start
    \/ /\ a.start = b.start
       /\ \/ StrLess(a.court_label, b.court_label)
          \/ /\ a.court_label = b.court_label
             /\ \/ StrLess(a.calendar_id, b.calendar_id)
                \/ /\ a.calendar_id = b.calendar_id
                   /\ ~StrLess(b.court_id, a.court_id)

Occurrences(list, x) == Cardinality({i \in 1..Len(list) : list[i] = x})

\* the slots of the input that lie on a requested date, as the path in use reads
\* the request
Requested(slot) ==
    IF fnOut.by = "app"
    THEN ~fnIn.filter.dates.given
            \/ \E i \in 1..Len(fnIn.filter.dates.list) :
                  fnIn.filter.dates.list[i] = strftime_Ymd(DateOf(slot.start))
    ELSE fnIn.filter.date.form = "absent"
            \/ strptime_Ymd(fnIn.filter.date).v = DateOf(slot.start)

\* C19: the list load_slots builds its rows from, and the list main prints, is in
\* ascending order of (start, court_label, calendar_id, court_id), and holds the
\* slots that passed the date filter, each as often as the adapters returned it.
C19_SortedForPresentation ==
    (fnPc = "returned" /\ fnOut.code = 0) =>
        /\ \A i \in 1..Len(fnOut.slots) : \A j \in 1..Len(fnOut.slots) :
              i < j => InOrder(fnOut.slots[i], fnOut.slots[j])
        /\ \A x \in ShownSlots :
              Occurrences(fnOut.slots, x) = IF Requested(x) THEN Occurrences(fnIn.slots, x) ELSE 0

\* C19 witness: three slots of the same start, two of them with the same label
\* and calendar, came in another order than they left.
C19_Witness ==
    /\ fnPc = "returned" /\ Len(fnOut.slots) = 3 /\ fnOut.slots # fnIn.slots
    /\ fnOut.slots[1].start = fnOut.slots[3].start
    /\ fnOut.slots[1].court_label = fnOut.slots[2].court_label
    /\ fnOut.slots[1].calendar_id = fnOut.slots[2].calendar_id
    /\ StrLess(fnOut.slots[1].court_id, fnOut.slots[2].court_id)
    /\ StrLess(fnOut.slots[2].court_label, fnOut.slots[3].court_label)

\* the date filter of the path that produced fnOut
DateFilterInUse(list) ==
    IF fnOut.by = "app" THEN AppDateFilter(list, fnIn.filter.dates)
    ELSE CliDateFilter(list, IF fnIn.filter.date.form = "absent" THEN NoneResult
                             ELSE strptime_Ymd(fnIn.filter.date))

\* the days the request names, whatever the way its strings are written
RequestedDays ==
    LET texts == IF fnOut.by = "app"
                 THEN {fnIn.filter.dates.list[k] : k \in 1..Len(fnIn.filter.dates.list)}
                 ELSE {fnIn.filter.date}
    IN  {strptime_Ymd(t).v : t \in {u \in texts : strptime_Ymd(u).tag = "int"}}

\* a date filter applies: the app got a non-empty tuple, the CLI a --filter-date
FilterApplies ==
    IF fnOut.by = "app" THEN fnIn.filter.dates.given /\ fnIn.filter.dates.list # <<>>
    ELSE fnIn.filter.date.form # "absent"

\* C20: filtering the filtered list again with the same dates gives the identical
\* list, and with a date filter every slot kept starts on a requested date.
C20_DateFilterIdempotent ==
    (fnPc = "returned" /\ fnOut.code = 0) =>
        /\ DateFilterInUse(DateFilterInUse(fnIn.slots)) = DateFilterInUse(fnIn.slots)
        /\ DateFilterInUse(fnOut.slots) = fnOut.slots
        /\ FilterApplies =>
              \A i \in 1..Len(fnOut.slots) : DateOf(fnOut.slots[i].start) \in RequestedDays

\* C20 witness: with a date filter, a list with a slot of the requested day and
\* one of another day was cut down to the former.
C20_Witness ==
    /\ fnPc = "returned" /\ fnOut.code = 0 /\ FilterApplies
    /\ Len(fnIn.slots) = 2 /\ Len(fnOut.slots) = 1
    /\ DateOf(fnIn.slots[1].start) # DateOf(fnIn.slots[2].start)

(***************************************************************************)
(* Properties of a whole run of the CLI or of load_slots.                  *)
(***************************************************************************)
\* a date string of the run's arguments is no date
InvalidDateGiven ==
    IF fnIn.by = "cli" THEN CliFilterDate(fnIn.date).tag = "raise"
    ELSE \E i \in 1..Len(fnIn.dates.list) : strptime_Ymd(fnIn.dates.list[i]).tag = "raise"

\* no request has been made: no LTM page was asked for and the Eversports
\* adapter was not entered
NothingFetched == ltmFetched = <<>> /\ evPc = "idle" /\ calTotal = 0

\* C21: in a run whose timezone name is unknown or whose date input holds a
\* string that is no date, no request is ever made.
C21_InvalidConfigNoFetch ==
    (~fnIn.tz_ok \/ InvalidDateGiven) => NothingFetched

\* a page fetch of the crawl raised a transport error
CrawlRaised == \E i \in 1..Len(ltmFetched) : ltmFetched[i][3] = "raise"

\* C22: when a page fetch of the CLI's crawl raised, main returns 1 and prints no
\* slot, whatever the earlier pages of the run yielded.
C22_CliFailureReportsNothing ==
    (fnIn.by = "cli" /\ fnPc = "returned" /\ CrawlRaised)
        => fnOut.code = 1 /\ fnOut.slots = <<>>

\* C22 witness: the first page yielded a slot, the fetch of the second page
\* raised; main returned 1 without slots.
C22_Witness ==
    /\ fnIn.by = "cli" /\ fnPc = "returned" /\ fnOut.code = 1
    /\ Len(ltmFetched) = 2 /\ ltmFetched[2][3] = "raise"
    /\ ltmOut # <<>>

\* every slot an adapter has emitted during the call
EmittedSlots ==
    {ltmOut[i] : i \in 1..Len(ltmOut)} \cup {slots[i] : i \in 1..Len(slots)}
        \cup {colOut[i] : i \in 1..Len(colOut)}

\* C23: every slot of either adapter has duration_minutes equal to the minutes
\* from its start to its end, and at least 1
C23_DurationIsEndMinusStart ==
    \A slot \in EmittedSlots :
        /\ slot.duration_minutes * 60 = slot.end - slot.start
        /\ slot.duration_minutes >= 1

\* both adapters have emitted: an LTM slot whose data-size was below 1 and an
\* Eversports slot that ends on the day after its start
C23_Witness ==
    /\ \E i \in 1..Len(ltmOut) : ltmOut[i].start = At(1, 13, 0) /\ ltmOut[i].duration_minutes = 60
    /\ \E i \in 1..Len(slots) :
          DateOf(slots[i].end) = DateOf(slots[i].start) + 1 /\ slots[i].duration_minutes = 24 * 60

\* the requests of the page loop of ltm.fetch_slots for one seed, begun at url
\* with the set urls of visited URLs: <<requested URL, resolved URL or "raise">>
RECURSIVE CrawlFrom(_, _, _, _, _)
CrawlFrom(site, url, index, pages, urls) ==
    IF ~RangeLeft(index, pages) \/ AlreadySeen(url, urls) THEN <<>>
    ELSE LET resp == fetch_html(site, url)
             next_href == extract_next_href(resp.page)
             absolute_next == urljoin(BASE_URL, next_href)
             seen1 == urls \cup {resp.resolved}
         IN  IF ~resp.ok THEN <<<<url, "raise">>>>
             ELSE <<<<url, resp.resolved>>>>
                  \o (IF next_href = "<None>" \/ absolute_next \in seen1 THEN <<>>
                      ELSE CrawlFrom(site, absolute_next, index + 1, pages, seen1))

\* the requests made for a seed when no seed was crawled before it
CrawledAlone(sd) == CrawlFrom(ltmSite, SEED_URLS[sd], 0, ltmPages, {})

RECURSIVE RequestsOf(_, _)
RequestsOf(fetched, sd) ==
    IF fetched = <<>> THEN <<>>
    ELSE (IF Head(fetched)[1] = sd THEN <<<<Head(fetched)[2], Head(fetched)[3]>>>> ELSE <<>>)
         \o RequestsOf(Tail(fetched), sd)

\* C24: the pages fetched for a seed are the same whether or not another seed
\* was crawled before it in the same call
C24_SeedsCrawledIndependently ==
    ltmPc = "done" =>
        \A sd \in 1..Len(SEED_URLS) : RequestsOf(ltmFetched, sd) = CrawledAlone(sd)

\* C25: malformed LTM markup never aborts the crawl: the crawl ends early only
\* when a page fetch raised a transport error
C25_MalformedMarkupNeverAborts ==
    ltmPc = "raised" => ltmFetched[Len(ltmFetched)][3] = "raise"

(***************************************************************************)
(* Properties of the row scan.                                             *)
(***************************************************************************)
\* the slots of the row with the times of the cell
SlotsAt(cell) ==
    {i \in 1..Len(rowOut) : <<rowOut[i].start, rowOut[i].end>> = CellTimes(cell, rowIn.day)}

SameKey(a, b) == PyOr(a.start, <<>>) = PyOr(b.start, <<>>) /\ PyOr(a.end, <<>>) = PyOr(b.end, <<>>)

\* the price of the slot a cell would give
PriceOf(cell) == PriceValue(cell.price)

\* among the cells of a key only the first is used: a slot of the key carries
\* the price of the first cell of the row with that key
FirstOfKeyUsed ==
    \A k \in 1..Len(rowIn.cells) :
        (\A j \in 1..(k - 1) : ~SameKey(rowIn.cells[j], rowIn.cells[k]))
            => \A i \in SlotsAt(rowIn.cells[k]) : rowOut[i].price_eur = PriceOf(rowIn.cells[k])

\* C26 as stated: a cell whose state is outside the available set or whose
\* tooltip holds a busy token leaves the row without a slot of its key, wherever
\* it stands in the row, and only the first available cell of a key is used
C26_BusyWinsInRow ==
    rowPc = "parsed" =>
        /\ \A k \in 1..Len(rowIn.cells) :
              (StateOf(rowIn.cells[k]) \notin AVAILABLE_STATES
                  \/ HasAny(TooltipOf(rowIn.cells[k]), BUSY_TOKENS))
                 => SlotsAt(rowIn.cells[k]) = {}
        /\ FirstOfKeyUsed

\* C26 amended: a cell whose state is not empty and outside the available set,
\* or whose tooltip holds a busy token, leaves the row without a slot of its
\* key, wherever it stands in the row; only the first cell of a key is used
C26_NonEmptyBusyStateWinsInRow ==
    rowPc = "parsed" =>
        /\ \A k \in 1..Len(rowIn.cells) :
              ((StateOf(rowIn.cells[k]) # <<>> /\ StateOf(rowIn.cells[k]) \notin AVAILABLE_STATES)
                  \/ HasAny(TooltipOf(rowIn.cells[k]), BUSY_TOKENS))
                 => SlotsAt(rowIn.cells[k]) = {}
        /\ FirstOfKeyUsed

\* a free cell followed by a booked cell of the same key: nothing is emitted
C26_Witness ==
    /\ rowPc = "parsed" /\ rowIn.blocked = {}
    /\ rowIn.cells = <<FreeCell(t1000, t1100), Cell(t1000, t1100, tBooked, None, None)>>
    /\ rowOut = <<>>

(***************************************************************************)
(* Properties of the final re-check of eversports._build_slot.             *)
(***************************************************************************)
\* what the re-check asks of a cell
PassesRecheck(cell) ==
    /\ StateOf(cell) \in AVAILABLE_STATES
    /\ ~StartsWith(TooltipOf(cell), tOccupied)
    /\ TooltipOf(cell) = <<>> \/ HasAny(TooltipOf(cell), POSITIVE_TOKENS)
    /\ cell.open # None
    /\ Truthy(cell.start) /\ strptime_HM(cell.start).tag # "raise"
    /\ Truthy(cell.end) /\ strptime_HM(cell.end).tag # "raise"

\* C27: every slot of the row comes from a cell that passes the re-check (state
\* available, tooltip not beginning with "occupied", tooltip empty or with a
\* positive token, open marker present, times parse); a cell that fails it and
\* shares its key with no other cell of the row gives no slot
C27_FinalRecheck ==
    rowPc = "parsed" =>
        /\ \A i \in 1..Len(rowOut) :
              \E k \in 1..Len(rowIn.cells) :
                  i \in SlotsAt(rowIn.cells[k]) /\ PassesRecheck(rowIn.cells[k])
        /\ \A k \in 1..Len(rowIn.cells) :
              (/\ ~PassesRecheck(rowIn.cells[k])
               /\ \A j \in 1..Len(rowIn.cells) : j # k => ~SameKey(rowIn.cells[j], rowIn.cells[k]))
                 => SlotsAt(rowIn.cells[k]) = {}

\* a cell with an empty state, which the row scan keeps as a candidate, next to
\* a free cell of another hour: only the latter is emitted
C27_Witness ==
    /\ rowPc = "parsed" /\ rowIn.blocked = {}
    /\ rowIn.cells = <<EmptyStateCell, FreeCell(t1100, t1200)>>
    /\ Len(Candidates(RowPage[1].rows[1])) = 2
    /\ Len(rowOut) = 1 /\ rowOut[1].start = At(1, 11, 0)

(***************************************************************************)
(* Properties of the color bridge.                                         *)
(***************************************************************************)
\* the page the crawl is about to fetch, its price box and its colors
PageAhead == fetch_html(ltmSite, ltmUrl).page

ColorOn(page, code) ==
    IF DictHas(parse_price_colors(page), code) THEN DictGet(parse_price_colors(page), code)
    ELSE ""

\* the positions of the price box entries of the page whose code has the color
ValuedWithColor(page, color) ==
    {i \in 1..Len(parse_price_map(page)) : ColorOn(page, parse_price_map(page)[i][1]) = color}

MinOf(set) == CHOOSE n \in set : \A m \in set : n <= m

\* a page was fetched and parsed in this step
PageProcessed == Len(ltmFetched') = Len(ltmFetched) + 1 /\ FetchOk(ltmFetched'[Len(ltmFetched')])

\* C28: a code without a value whose color on the page is the color of a code the
\* price box of the same page gives a value resolves to that value, and to the
\* value of the first such code in price-box order when there are several
C28_ColorBridgeOnPage ==
    [][PageProcessed =>
         \A code \in PriceCodes :
            (/\ ~DictHas(price_lookup, code)
             /\ ~DictHas(parse_price_map(PageAhead), code)
             /\ ColorOn(PageAhead, code) # ""
             /\ ValuedWithColor(PageAhead, ColorOn(PageAhead, code)) # {})
               => /\ DictHas(price_lookup', code)
                  /\ DictGet(price_lookup', code)
                       = parse_price_map(PageAhead)[
                             MinOf(ValuedWithColor(PageAhead, ColorOn(PageAhead, code)))][2]]_vars

\* price3 has no value and is red like price1 (12.00) and price2 (15.00), which
\* stand in this order in the price box: price3 is 12.00 and so is its slot
C28_Witness ==
    /\ ltmSite = "SharedColor" /\ Len(ltmFetched) >= 1
    /\ Cardinality(ValuedWithColor(PageFetched(ltmFetched[1]), "red")) = 2
    /\ ~DictHas(parse_price_map(PageFetched(ltmFetched[1])), "price3")
    /\ DictGet(price_lookup, "price3") = 1200
    /\ ltmOut[1].price_code = "price3" /\ ltmOut[1].price_eur = 1200

\* C29: a code without a value whose color no price box entry of the page has
\* resolves to the value an earlier page of the same seed bound to that color;
\* it stays without a value when only pages of another seed bound the color
C29_ColorPropagationPerSeed ==
    [][PageProcessed =>
         \A code \in PriceCodes :
            (/\ ~DictHas(price_lookup, code)
             /\ ~DictHas(parse_price_map(PageAhead), code)
             /\ ColorOn(PageAhead, code) # ""
             /\ ValuedWithColor(PageAhead, ColorOn(PageAhead, code)) = {})
               => IF DictHas(color_price_by_seed[ltmSeed], ColorOn(PageAhead, code))
                  THEN /\ DictHas(price_lookup', code)
                       /\ DictGet(price_lookup', code)
                            = DictGet(color_price_by_seed[ltmSeed], ColorOn(PageAhead, code))
                  ELSE ~DictHas(price_lookup', code)]_vars

\* the first seed bound red to 12.00 on its first page; price2, red and without
\* value on its second page, is 12.00; price3, red and without value on the page
\* of the second seed, has no value and its slot no price
C29_Witness ==
    /\ ltmSite = "ColorAcrossPages" /\ ltmPc = "done" /\ Len(ltmFetched) = 3
    /\ DictGet(color_price_by_seed[1], "red") = 1200
    /\ ~DictHas(color_price_by_seed[2], "red")
    /\ DictGet(price_lookup, "price2") = 1200
    /\ ~DictHas(price_lookup, "price3")
    /\ ltmOut[3].price_code = "price3" /\ ltmOut[3].price_eur = -1

(***************************************************************************)
(* Properties of the retry iterations of eversports.fetch_slots.           *)
(***************************************************************************)
\* C30: a calendar request of retry k is preceded by a wait of 2 x k seconds and
\* by the warm-up run again, the home page request and then the request of the
\* booking page of the facility, whether or not these requests fail
C30_RetryAfterWaitAndWarmUp ==
    evPc = "request" =>
        /\ retry_count \in 1..max_retries
        /\ last.op = "rewarm" /\ last.wait = 2 * retry_count
        /\ Len(last.warm) = 2
        /\ last.warm[1][1] = "home" /\ last.warm[2][1] = "booking"

(***************************************************************************)
(* Properties of the first warm-up of a facility (lines 136-173).          *)
(***************************************************************************)
\* a calendar request of facility f has been made
FacilityVisited(f) == \E c \in visited : c[1] = f

\* The order of the steps of a facility: its first calendar request follows a
\* warm-up of two requests, the home page and then the booking page; a warm-up
\* is run only for a facility without calendar requests and never twice in a
\* row; the step after a warm-up is a calendar request of the same facility,
\* whatever became of the warm-up
WarmUpThenCalendar ==
    /\ (calTotal' # calTotal /\ ~FacilityVisited(evF))
          => /\ last.op = "warmup"
             /\ Len(last.warm) = 2
             /\ last.warm[1][1] = "home" /\ last.warm[2][1] = "booking"
    /\ last'.op = "warmup" => ~FacilityVisited(evF') /\ last.op # "warmup"
    /\ last.op = "warmup" => calTotal' = calTotal + 1 /\ evF' = evF

\* C31 as stated: before the first calendar request to a facility the home page
\* and then the booking page have been requested, in that order and once per
\* facility; a warm-up in which a request failed is logged, and the calendar
\* requests of the facility are still attempted
C31_WarmUpLoggedOnAnyFailure ==
    [][/\ WarmUpThenCalendar
       /\ (last'.op = "warmup" /\ \E i \in 1..Len(last'.warm) : ~last'.warm[i][2])
             => last'.logged]_vars

\* C31: before the first calendar request to a facility the home page and then
\* the booking page have been requested, in that order and once per facility; a
\* warm-up whose booking page request failed is logged, and the calendar
\* requests of the facility are still attempted
C31_WarmUpOrdering ==
    [][/\ WarmUpThenCalendar
       /\ (last'.op = "warmup" /\ ~last'.warm[Len(last'.warm)][2]) => last'.logged]_vars

\* the booking page of the second facility failed, the facility is not among
\* the initialized ones, and its calendar has been requested
C31_Witness ==
    /\ evF = 2 /\ last.op = "attempt"
    /\ CurFacility.id \notin initialized_facilities
    /\ FacilityVisited(2)

(***************************************************************************)
(* Properties of the blocked-slot veto for cells that end on the next day. *)
(***************************************************************************)
\* the minute of the day at which a slot of day d starts
StartMinute(slot, d) == (slot.start - d * DaySeconds) \div 60

\* C32: a slot that crosses midnight (its end lies on the following day) is not
\* emitted when the half-hour at its own start minute is listed as blocked for
\* its court and date
C32_StartBlockVetoesAcrossMidnight ==
    rowPc = "parsed" =>
        \A i \in 1..Len(rowOut) :
            rowOut[i].end >= (rowIn.day + 1) * DaySeconds
                => <<JIsoDate(rowIn.day), StartMinute(rowOut[i], rowIn.day),
                     rowOut[i].court_id>> \notin rowIn.blocked

(***************************************************************************)
(* Properties of the row scan across keys.                                 *)
(***************************************************************************)
\* both times of the cell are read by strptime
TimesParse(cell) ==
    /\ Truthy(cell.start) /\ strptime_HM(cell.start).tag # "raise"
    /\ Truthy(cell.end) /\ strptime_HM(cell.end).tag # "raise"

\* the slot and the time of the cell share an instant
OverlapsCell(slot, cell, d) ==
    slot.start < CellTimes(cell, d)[2] /\ CellTimes(cell, d)[1] < slot.end

\* C33: no slot emitted from a court row overlaps in time a busy cell of the
\* same row (busy state or busy tooltip token), also when the busy cell has
\* another (start, end) pair than the cell the slot comes from
C33_NoSlotOverlapsBusyCell ==
    rowPc = "parsed" =>
        \A i \in 1..Len(rowOut) : \A k \in 1..Len(rowIn.cells) :
            (IsBusyCell(rowIn.cells[k]) /\ TimesParse(rowIn.cells[k]))
                => ~OverlapsCell(rowOut[i], rowIn.cells[k], rowIn.day)

(***************************************************************************)
(* Properties of the visited set of ltm.fetch_slots under redirects.       *)
(***************************************************************************)
\* C34: over a whole crawl no page is parsed twice: no two fetches of one call
\* return the same resolved URL, also when the server resolves a requested URL
\* to another final URL
C34_NoPageParsedTwice ==
    \A i, j \in 1..Len(ltmFetched) :
        (i < j /\ FetchOk(ltmFetched[i]) /\ FetchOk(ltmFetched[j]))
            => ltmFetched[i][3] # ltmFetched[j][3]

(***************************************************************************)
(* Properties of the prices of the slots of one crawl.                     *)
(***************************************************************************)
\* C35: all slots emitted in one call of ltm.fetch_slots that carry the same
\* price code have the same price_eur, whichever page each was emitted on
C35_PriceConsistentWithinCrawl ==
    \A i, j \in 1..Len(ltmOut) :
        ltmOut[i].price_code = ltmOut[j].price_code
            => ltmOut[i].price_eur = ltmOut[j].price_eur

(***************************************************************************)
(* Properties of the generic except clause of eversports.fetch_slots       *)
(* (lines 269-276).                                                        *)
(***************************************************************************)
\* the current combination is the last of the call
LastCombo ==
    evF = Len(FACILITIES) /\ evD = Len(target_dates) /\ evS = Len(CurFacility.sports)

\* C36: a calendar request that fails with an exception that is neither a
\* challenge nor an HTTP error is retried: when the loop of its combination is
\* left, such a failure is the last request only if it was the third; every
\* retry after it follows a warm-up that began with the home page; after three
\* requests the combination is given up and the call goes on to a combination
\* not requested before, or returns when there is none
C36_OtherErrorRetried ==
    [][/\ LoopLeft =>
            \A i \in 1..Len(attemptLog) :
                (attemptLog[i] = "error" /\ i = Len(attemptLog)) => i = max_retries + 1
       /\ (calTotal' # calTotal /\ attemptLog # <<>>
              /\ attemptLog[Len(attemptLog)] = "error")
             => /\ last.op = "rewarm" /\ last.wait = 2 * Len(attemptLog)
                /\ last.warm # <<>> /\ last.warm[1][1] = "home"
                /\ Len(attemptLog) <= max_retries
       /\ (LoopLeft /\ attemptLog # <<>> /\ attemptLog[Len(attemptLog)] = "error"
              /\ evPc' # evPc)
             => /\ <<Combo, max_retries + 1>> \in gaveUp'
                /\ IF LastCombo THEN evPc' = "done"
                   ELSE /\ evPc' \in {"attempt", "facility"}
                        /\ <<evF', evD', evS'>> \notin visited]_vars

\* the three requests of the second combination ended in such an exception,
\* one error was recorded for them and the loop is left without a break
C36_Witness ==
    /\ LoopLeft /\ ~broke /\ ~success
    /\ attemptLog = <<"error", "error", "error">>
    /\ Cardinality(visited) = 2 /\ errors = 1

(***************************************************************************)
(* Properties of the end of an Eversports slot (lines 439-457).            *)
(***************************************************************************)
\* the seconds since midnight of an instant
TimeOfDay(t) == t % DaySeconds

\* C37: a slot of the Eversports adapter whose end time of day is not after its
\* start time of day ends on the day after its start; every slot ends after it
\* starts and lasts between 1 and 1440 minutes, exactly 1440 when the two times
\* of day are equal
C37_EndRollsToNextDay ==
    \A i \in 1..Len(slots) :
        /\ slots[i].end > slots[i].start
        /\ slots[i].duration_minutes \in 1..(24 * 60)
        /\ TimeOfDay(slots[i].end) <= TimeOfDay(slots[i].start)
              => DateOf(slots[i].end) = DateOf(slots[i].start) + 1
        /\ TimeOfDay(slots[i].end) > TimeOfDay(slots[i].start)
              => DateOf(slots[i].end) = DateOf(slots[i].start)
        /\ TimeOfDay(slots[i].end) = TimeOfDay(slots[i].start)
              => slots[i].duration_minutes = 24 * 60

\* the list holds the hour from 23:00 to midnight and a slot whose two times
\* are both 10:00
C37_Witness ==
    /\ \E i \in 1..Len(slots) :
          /\ TimeOfDay(slots[i].start) = 23 * 3600 /\ TimeOfDay(slots[i].end) = 0
          /\ slots[i].duration_minutes = 60
    /\ \E i \in 1..Len(slots) :
          /\ TimeOfDay(slots[i].start) = 10 * 3600 /\ TimeOfDay(slots[i].end) = 10 * 3600
          /\ slots[i].end = slots[i].start + DaySeconds

====
